---- MODULE Spec2Model ----
(***************************************************************************)
(* Verification model of the StreamFX background-removal filter:           *)
(*   - the provider switch controller and frame pipeline of                *)
(*     source/filters/filter-background-removal.cpp,                       *)
(*   - the NVIDIA adapter of source/nvidia/vfx/nvidia-vfx-background-      *)
(*     removal.cpp and its mapped textures (source/nvidia/cv/              *)
(*     nvidia-cv-texture.cpp),                                             *)
(*   - the render-target pool of source/filters/filter-nv-background-      *)
(*     removal.cpp.                                                        *)
(* Threads: the host's graphics thread (video_tick, video_render), the     *)
(* host's settings thread (update, destructor) and the workers of the      *)
(* thread pool that run task_switch_provider.                              *)
(***************************************************************************)
EXTENDS Integers, Sequences, FiniteSets, TLC

\* ------------------------------------------------------------------ bounds
\* Number of worker threads of the thread pool.
NumWorkers == 2

\* ------------------------------------------------------- program constants
\* The adapter owns five buffers: _input, _source, _destination, _output, _tmp.
BuffersPerAdapter == 5

INVALID == "INVALID"
AUTOMATIC == "AUTOMATIC"
NVIDIA_GREEN_SCREEN == "NVIDIA_GREEN_SCREEN"

\* enum class background_removal_provider
Providers == {INVALID, AUTOMATIC, NVIDIA_GREEN_SCREEN}

\* static background_removal_provider provider_priority[]
provider_priority == <<NVIDIA_GREEN_SCREEN>>

\* Task handles. The queue never holds a task other than the one _provider_task
\* names, so two alternating handles tell the queued task from its predecessor.
NoTask == "null"
TaskIds == {"task_a", "task_b"}

\* Adapter instances that can exist at once: the one _nvidia_fx points to and
\* the one make_shared is constructing.
FxIds == {"fx_a", "fx_b"}
NoFx == "null"

\* Owners of _provider_lock.
Free == "free"
Gfx == "gfx"
Ui == "ui"
Task == "task"

\* Target dimensions the host reports (base width, base height); <<0, 0>> is
\* what obs_source_get_base_width/height give for a missing or empty target.
TargetSizes == {<<0, 0>>, <<1, 1>>}

VARIABLES
    \* background_removal_factory
    nvidia_available,
    factory,          \* background_removal_factory: [constructed, nvcuda, nvcvi,
                      \* nvvfx, registered, warned, errored, escaped]
    \* nvidia::vfx::vfx and nvidia::cv::cv
    loader,           \* one constructor call: where the library may be found,
                      \* the locations tried in order, and the outcome
    runtime,          \* get(): the static weak_ptr and mutex, the instances
                      \* made so far and the callers' handles
    \* background_removal_instance
    provider,         \* _provider
    provider_ready,   \* _provider_ready
    provider_lock,    \* _provider_lock: its owner
    provider_task,    \* _provider_task: handle of the last pushed task
    nvidia_fx,        \* _nvidia_fx: NoFx or the adapter instance pointed to
    in_size,          \* _in_size
    out_size,         \* _out_size
    dirty,            \* _dirty
    mask,             \* _mask: "none", "input" (the capture itself) or "output"
    masked,           \* _masked: [by |-> mask used, size |-> dimensions]
    \* nvidia::vfx::background_removal instances
    fx_state,         \* per instance: "free", "constructing", "live", "destructing"
    fx_bufs,          \* per instance: number of buffers it holds
    \* util::threadpool and the tasks its workers run
    pool_tasks,       \* queued tasks, each [id, spd]
    task_start,       \* per captured provider: tasks taken, before line 422
    task_wait,        \* per captured provider: tasks waiting for the lock
    task_body,        \* the task inside the locked body: [pc, spd]
    \* threads of the host
    gfx,              \* graphics thread: [pc, size, fx, entry_ready, invoked_ready]
    ui,               \* settings thread: [pc, req, arg, old, noop]
    destroyed,        \* the instance's destructor has returned
    crashed,          \* std::terminate was called
    dangling,         \* a task ran on the destroyed instance
    \* history
    last_requested,   \* identity of the last switch request ("NONE" before any)
    load_failed,      \* a load has failed and no task has committed since
    rapid,            \* progress of the away-and-back-twice scenario, or "off"
    tick_phase,       \* "tick": ticked, render not yet returned; "requested": a
                      \* switch was requested since, with no other task about;
                      \* "idle" otherwise; "off" when not tracked
    tick_target,      \* what video_tick last read from the host: [exists, size],
                      \* with the parity n of the number of ticks; tracked is
                      \* FALSE when this history is not kept
    \* buffers
    adapter,          \* nvidia::vfx::background_removal: _input, _source,
                      \* _destination, _output and _dirty of one adapter;
                      \* rebound: _fx was given an image since its last load
    nv_rt,            \* filter-nv-background-removal: _size, _nvidia_input,
                      \* _nvidia_cvi_input, _nvidia_cvi_working_input
    call              \* history: what the last resize or ensure call did;
                      \* refused: the accelerator call of it that did not
                      \* succeed, "none" if all did; steps: the stream
                      \* synchronizations, transfers and runs of a process call;
                      \* gpu: the GPU objects it created, resized or destroyed,
                      \* each with the contexts the thread held at that point

vars == <<nvidia_available, factory, loader, runtime, provider, provider_ready, provider_lock, provider_task,
          nvidia_fx, in_size, out_size, dirty, mask, masked, fx_state, fx_bufs,
          pool_tasks, task_start, task_wait, task_body, gfx, ui, destroyed, crashed,
          dangling, last_requested, load_failed, rapid, tick_phase, tick_target,
          adapter, nv_rt,
          call>>

hostVars == <<in_size, out_size, dirty, mask, masked>>
fxVars == <<nvidia_fx, fx_state, fx_bufs>>
poolVars == <<pool_tasks, task_start, task_wait, task_body>>
histVars == <<last_requested, load_failed, rapid>>
tickVars == <<tick_phase, tick_target>>
bufVars == <<adapter, nv_rt, call>>
factoryVars == <<nvidia_available, factory, loader, runtime>>
instanceVars == <<tickVars, factoryVars, provider, provider_ready, provider_lock,
                  provider_task, hostVars, fxVars, poolVars, gfx, ui, destroyed,
                  crashed, dangling, histVars>>

NoBody == [pc |-> "none", spd |-> INVALID]

\* No tick yet; the history of ticks is not kept, or is kept.
UntrackedTarget == [tracked |-> FALSE, n |-> 0, exists |-> FALSE, size |-> <<0, 0>>]
UnreadTarget == [UntrackedTarget EXCEPT !.tracked = TRUE]
IdleGfx == [pc |-> "idle", size |-> <<0, 0>>, fx |-> NoFx, entry_ready |-> FALSE,
            invoked_ready |-> FALSE]
IdleUi == [pc |-> "idle", req |-> INVALID, arg |-> INVALID, old |-> INVALID,
           noop |-> FALSE]

\* background_removal_instance::background_removal_instance, member initialisers
\* The factory before its constructor has run,
NoFactory == [constructed |-> FALSE, nvcuda |-> FALSE, nvcvi |-> FALSE, nvvfx |-> FALSE,
              registered |-> FALSE, warned |-> FALSE, errored |-> FALSE,
              escaped |-> FALSE]
\* and after a construction in which every runtime loaded.
LoadedFactory == [constructed |-> TRUE, nvcuda |-> TRUE, nvcvi |-> TRUE, nvvfx |-> TRUE,
                  registered |-> TRUE, warned |-> FALSE, errored |-> FALSE,
                  escaped |-> FALSE]

InitMembers ==
    /\ provider = INVALID
    /\ provider_ready = FALSE
    /\ provider_lock = Free
    /\ provider_task = NoTask
    /\ nvidia_fx = NoFx
    /\ in_size = <<1, 1>>
    /\ out_size = <<1, 1>>
    /\ dirty = FALSE
    /\ mask = "input"
    /\ masked = [by |-> "none", size |-> <<1, 1>>]
    /\ fx_state = [i \in FxIds |-> "free"]
    /\ fx_bufs = [i \in FxIds |-> 0]
    /\ pool_tasks = <<>>
    /\ task_start = [p \in Providers |-> 0]
    /\ task_wait = [p \in Providers |-> 0]
    /\ task_body = NoBody
    /\ gfx = IdleGfx
    /\ ui = IdleUi
    /\ destroyed = FALSE
    /\ crashed = FALSE
    /\ dangling = FALSE
    /\ last_requested = "NONE"
    /\ load_failed = FALSE

\* An instance exists only for a registered effect: the factory has loaded the
\* NVIDIA runtimes.
\* No runtime constructor is being followed.
NoLoader == [lib |-> "none", win32 |-> FALSE, search |-> "absent",
             vfx_env |-> "unset", vfx_dir |-> "absent",
             ar_env |-> "unset", ar_dir |-> "absent",
             tried |-> <<>>, loaded |-> "none", state |-> "off"]

\* Threads that call get() and later drop the handle they got.
Callers == {"c1", "c2"}

\* No caller of get() is being followed.
NoRuntime == [weak |-> 0, made |-> 0, objs |-> <<>>, lock |-> "free",
              th |-> [c \in Callers |-> [pc |-> "off", h |-> 0]]]

InitInstance ==
    /\ nvidia_available = TRUE
    /\ factory = LoadedFactory
    /\ loader = NoLoader
    /\ runtime = NoRuntime
    /\ InitMembers

\* ------------------------------------------------------------ buffers
\* Sizes a resize is asked for; <<1, 1>> is the size the adapter is built with.
ResizeSizes == {<<1, 1>>, <<2, 1>>, <<1, 2>>}
NoSize == <<0, 0>>
TextureRoles == {"input", "output"}
ImageRoles == {"source", "destination"}
Roles == TextureRoles \cup ImageRoles

\* Accelerator and graphics calls counted per role during one call.
NoOps == [unmap |-> 0, dealloc |-> 0, alloc |-> 0, map |-> 0]
NoRoleOps == [r \in Roles |-> NoOps]
NoCall == [n |-> 0, kind |-> "none", size |-> NoSize, ops |-> NoRoleOps,
           rebind |-> 0, thrown |-> FALSE, refused |-> "none", steps |-> <<>>,
           gpu |-> <<>>]

\* A GPU object is created, resized or destroyed with the graphics context
\* (gs::context) and the compute context (cuda context enter()) held or not.
GpuOp(op, g, c) == [op |-> op, gctx |-> g, cctx |-> c]

\* nvidia::cv::texture::texture: a graphics texture, its accelerator image
\* initialised from it (buf: the size it was initialised with) and mapped.
NewTexture(s) == [tex |-> s, buf |-> s, mapped |-> TRUE]

\* background_removal::background_removal: resize(160, 90), then load().
InitAdapter ==
    [input |-> NewTexture(<<1, 1>>), source |-> <<1, 1>>,
     destination |-> <<1, 1>>, output |-> NewTexture(<<1, 1>>), dirty |-> FALSE,
     rebound |-> FALSE, exists |-> TRUE]
\* No adapter: the filter instantiated is the one of filter-nv-background-removal.
NoAdapter == [InitAdapter EXCEPT !.exists = FALSE]

\* filter-nv-background-removal: no render target before the first render.
InitRt ==
    [size |-> <<1, 1>>, texture |-> NoSize, nvimg |-> NoSize, mapped |-> FALSE,
     working |-> NoSize, exists |-> TRUE]
\* No render target: the filter instantiated is the one of filter-background-removal.
NoRt == [InitRt EXCEPT !.exists = FALSE]

InitBuffers == adapter = InitAdapter /\ nv_rt = NoRt /\ call = NoCall

Init == InitInstance /\ InitBuffers /\ rapid = "off" /\ tick_phase = "off" /\ tick_target = UntrackedTarget

Alive == ~destroyed /\ ~crashed

\* --------------------------------------------------------------- helpers
\* _provider_lock is a std::mutex: std::unique_lock blocks until it is free.
CanLock == provider_lock = Free

\* background_removal_factory::is_provider_available
is_provider_available(p) ==
    IF p = NVIDIA_GREEN_SCREEN THEN nvidia_available ELSE FALSE

\* update: the loop that resolves AUTOMATIC over provider_priority
RECURSIVE FirstAvailable(_, _)
\* Variant of FirstAvailable used to test the sensitivity of the properties.
FirstAvailable_None(i, fallback) == fallback

FirstAvailable(i, fallback) ==
    IF i > Len(provider_priority) THEN fallback
    ELSE IF is_provider_available(provider_priority[i]) THEN provider_priority[i]
    ELSE FirstAvailable(i + 1, fallback)

\* Variant of ResolveProvider used to test the sensitivity of the properties.
ResolveProvider_Raw(p) == p

ResolveProvider(p) == IF p = AUTOMATIC THEN FirstAvailable(1, p) ELSE p

\* The identity a request names: AUTOMATIC stands for the provider of the
\* priority list (there is one, and an instance exists only if it is available).
RequestedIdentity(p) == IF p = AUTOMATIC THEN NVIDIA_GREEN_SCREEN ELSE p

\* A handle no queued task and no _provider_task carries.
FreshId == IF provider_task = "task_a" THEN "task_b" ELSE "task_a"

\* Variant of Pop used to test the sensitivity of the properties.
Pop_KeepsTask(q, h) == q

\* util::threadpool::pop: a task that has not started is removed from the
\* queue; a task a worker has already taken is left to run.
Pop(q, h) == SelectSeq(q, LAMBDA t : t.id # h)

\* util::threadpool::push
Push(q, h, data) == Append(q, [id |-> h, spd |-> data])

Count(f) == f[INVALID] + f[AUTOMATIC] + f[NVIDIA_GREEN_SCREEN]
InBody == IF task_body.pc = "none" THEN 0 ELSE 1
\* Workers that are running a task.
Busy == Count(task_start) + Count(task_wait) + InBody

\* No switch task is queued or running.
Settled == pool_tasks = <<>> /\ Busy = 0

\* History of the current frame: video_tick has been entered,
TickBegins(t) ==
    /\ tick_phase' = IF tick_phase = "off" THEN "off" ELSE "tick"
    /\ tick_target' = IF tick_target.tracked
                      THEN [tracked |-> TRUE, n |-> 1 - tick_target.n,
                            exists |-> t.exists, size |-> t.size]
                      ELSE tick_target
\* video_render has returned,
RenderReturns ==
    /\ tick_phase' = IF tick_phase = "off" THEN "off" ELSE "idle"
    /\ UNCHANGED tick_target
\* a switch was requested between the two while no other task was about.
SwitchRequested ==
    /\ tick_phase' = IF tick_phase = "tick" /\ Settled THEN "requested" ELSE tick_phase
    /\ UNCHANGED tick_target

Destructing == CHOOSE i \in FxIds : fx_state[i] = "destructing"
Constructing == CHOOSE i \in FxIds : fx_state[i] = "constructing"
FreeFx == CHOOSE i \in FxIds : fx_state[i] = "free"

\* ---------------------------------------------------- settings thread
\* The away-and-back-twice scenario: from a settled, loaded and ready
\* NVIDIA_GREEN_SCREEN, four effective requests with no task started between;
\* "r3_taken": a worker took the queued task after the third of them.
RapidNext(new) ==
    CASE rapid = "off" -> "off"
      [] rapid = "r0" -> IF Settled /\ provider = NVIDIA_GREEN_SCREEN /\ provider_ready
                            /\ nvidia_fx # NoFx /\ new = INVALID
                         THEN "r1" ELSE "r0"
      [] rapid = "r1" -> "r2"
      [] rapid = "r2" -> "r3"
      [] rapid = "r3" -> "r4"
      [] rapid = "r3_taken" -> "r0"
      [] OTHER -> "r0"

\* update, line 154: if (provider != _provider), an unlocked atomic read.
ProviderChanged(prov) == prov # provider

\* update, lines 139-156: read the setting, resolve AUTOMATIC, compare.
update(p) ==
    /\ Alive /\ ui.pc = "idle"
    /\ LET prov == ResolveProvider(p) IN
        /\ ui' = [pc |-> IF ProviderChanged(prov) THEN "u_switch" ELSE "u_ready",
                  req |-> p, arg |-> prov, old |-> provider,
                  noop |-> RequestedIdentity(p) = provider /\ provider_ready]
        /\ last_requested' = prov
    /\ UNCHANGED <<tickVars, bufVars, factoryVars, provider, provider_ready, provider_lock,
                   provider_task, hostVars, fxVars, poolVars, gfx, destroyed, crashed,
                   dangling, load_failed, rapid>>

\* Variant of SwitchBody used to test the sensitivity of the properties.
SwitchBody_NoCancel(new) ==
    /\ pool_tasks' = Push(pool_tasks, FreshId, provider)
    /\ provider_task' = FreshId
    /\ provider' = new
    /\ rapid' = RapidNext(new)

\* What switch_provider changes once it holds the lock (lines 389-413).
SwitchBody(new) ==
    IF new = provider
    THEN UNCHANGED <<provider, provider_task, pool_tasks, rapid>>
    ELSE /\ pool_tasks' = Push(Pop(pool_tasks, provider_task), FreshId, provider)
         /\ provider_task' = FreshId
         /\ provider' = new
         /\ rapid' = RapidNext(new)

\* switch_provider, lines 383-414: the whole body runs under _provider_lock,
\* and _provider_ready is not written.
switch_provider ==
    /\ Alive /\ ui.pc = "u_switch"
    /\ CanLock
    /\ SwitchBody(ui.arg)
    /\ ui' = [ui EXCEPT !.pc = "u_switched"]
    /\ SwitchRequested
    /\ UNCHANGED <<bufVars, factoryVars, provider_ready, provider_lock, hostVars, fxVars,
                   task_start, task_wait, task_body, gfx, destroyed, crashed, dangling,
                   last_requested, load_failed>>

\* update, line 158: if (_provider_ready) take the lock.
UpdateLocks == provider_ready

update_ready ==
    /\ Alive /\ ui.pc \in {"u_switched", "u_ready"}
    /\ ui' = IF UpdateLocks THEN [ui EXCEPT !.pc = "u_lock"] ELSE IdleUi
    /\ UNCHANGED <<tickVars, bufVars, factoryVars, provider, provider_ready, provider_lock,
                   provider_task, hostVars, fxVars, poolVars, gfx, destroyed, crashed,
                   dangling, histVars>>

\* update, line 159
update_lock ==
    /\ Alive /\ ui.pc = "u_lock"
    /\ CanLock
    /\ provider_lock' = Ui
    /\ ui' = [ui EXCEPT !.pc = "u_locked"]
    /\ UNCHANGED <<tickVars, bufVars, factoryVars, provider, provider_ready, provider_task, hostVars,
                   fxVars, poolVars, gfx, destroyed, crashed, dangling, histVars>>

\* update, line 170: the std::unique_lock goes out of scope.
UnlockedBy(t) == Free

\* update, lines 161-170: the provider's update is compiled out; unlock.
update_unlock ==
    /\ Alive /\ ui.pc = "u_locked"
    /\ provider_lock' = UnlockedBy(Ui)
    /\ ui' = IdleUi
    /\ UNCHANGED <<tickVars, bufVars, factoryVars, provider, provider_ready, provider_task, hostVars,
                   fxVars, poolVars, gfx, destroyed, crashed, dangling, histVars>>

\* ------------------------------------------------------------ adapter
\* nvidia_unload: _nvidia_fx.reset() empties the pointer and runs
\* ~background_removal, which first destroys the effect handle (_fx.reset()).
BeginUnload ==
    /\ nvidia_fx' = NoFx
    /\ fx_state' = [fx_state EXCEPT ![nvidia_fx] = "destructing"]
    /\ UNCHANGED fx_bufs

\* Variant of BuffersAfterDestruct used to test the sensitivity of the properties.
BuffersAfterDestruct_Leak == BuffersPerAdapter

\* Buffers an adapter holds once its destructor has run (lines 48-53).
BuffersAfterDestruct == 0

\* ~background_removal, lines 48-58: the buffers are released; texture::~texture
\* calls free(), which throws when the accelerator refuses the unmap or the
\* dealloc, and an exception leaving a destructor ends the process.
EndDestruct(ok) ==
    IF ok
    THEN /\ fx_state' = [fx_state EXCEPT ![Destructing] = "free"]
         /\ fx_bufs' = [fx_bufs EXCEPT ![Destructing] = BuffersAfterDestruct]
         /\ UNCHANGED crashed
    ELSE /\ crashed' = TRUE
         /\ UNCHANGED <<fx_state, fx_bufs>>

\* ------------------------------------------------------- thread pool
\* A worker of util::threadpool takes the oldest queued task and calls it.
worker_take ==
    /\ ~crashed
    /\ Busy < NumWorkers
    /\ pool_tasks # <<>>
    /\ task_start' = [task_start EXCEPT ![Head(pool_tasks).spd] = @ + 1]
    /\ pool_tasks' = Tail(pool_tasks)
    /\ rapid' = IF rapid \in {"r1", "r2"} THEN "r0"
                ELSE IF rapid = "r3" THEN "r3_taken" ELSE rapid
    /\ UNCHANGED <<tickVars, bufVars, factoryVars, provider, provider_ready, provider_lock,
                   provider_task, hostVars, fxVars, task_wait, task_body, gfx, ui,
                   destroyed, crashed, dangling, last_requested, load_failed>>

\* The task was bound to the instance by a raw pointer: once the instance is
\* destroyed the task works on freed memory.
task_dangling(spd) ==
    /\ ~crashed /\ destroyed
    /\ \/ /\ task_start[spd] > 0
          /\ task_start' = [task_start EXCEPT ![spd] = @ - 1]
          /\ UNCHANGED task_wait
       \/ /\ task_wait[spd] > 0
          /\ task_wait' = [task_wait EXCEPT ![spd] = @ - 1]
          /\ UNCHANGED task_start
    /\ dangling' = TRUE
    /\ UNCHANGED <<tickVars, bufVars, factoryVars, provider, provider_ready, provider_lock,
                   provider_task, hostVars, fxVars, pool_tasks, task_body, gfx, ui,
                   destroyed, crashed, histVars>>

\* task_switch_provider, line 422: _provider_ready = false, before the lock.
ReadyAtTaskStart == FALSE

task_mark_not_ready(spd) ==
    /\ Alive /\ task_start[spd] > 0
    /\ provider_ready' = ReadyAtTaskStart
    /\ task_start' = [task_start EXCEPT ![spd] = @ - 1]
    /\ task_wait' = [task_wait EXCEPT ![spd] = @ + 1]
    /\ UNCHANGED <<tickVars, bufVars, factoryVars, provider, provider_lock, provider_task, hostVars,
                   fxVars, pool_tasks, task_body, gfx, ui, destroyed, crashed, dangling,
                   histVars>>

\* Variant of TaskCanLock used to test the sensitivity of the properties.
TaskCanLock_Unguarded == TRUE

\* The task's std::unique_lock, line 425.
TaskCanLock == CanLock

task_lock(spd) ==
    /\ Alive /\ task_wait[spd] > 0
    /\ TaskCanLock
    /\ provider_lock' = Task
    /\ task_wait' = [task_wait EXCEPT ![spd] = @ - 1]
    /\ task_body' = [pc |-> "unload", spd |-> spd]
    /\ UNCHANGED <<tickVars, bufVars, factoryVars, provider, provider_ready, provider_task, hostVars,
                   fxVars, pool_tasks, task_start, gfx, ui, destroyed, crashed, dangling,
                   histVars>>

\* Variant of UnloadTarget used to test the sensitivity of the properties.
UnloadTarget_Active == provider

\* task_switch_provider, line 429: switch (spd->provider), the identity that
\* was active when the switch was requested.
UnloadTarget == task_body.spd

\* task_switch_provider, lines 429-437: unload the provider the task captured.
task_unload ==
    /\ Alive /\ task_body.pc = "unload"
    /\ IF UnloadTarget = NVIDIA_GREEN_SCREEN /\ nvidia_fx # NoFx
       THEN /\ BeginUnload
            /\ task_body' = [task_body EXCEPT !.pc = "unloading"]
       ELSE /\ task_body' = [task_body EXCEPT !.pc = "load"]
            /\ UNCHANGED fxVars
    /\ UNCHANGED <<tickVars, bufVars, factoryVars, provider, provider_ready, provider_lock,
                   provider_task, hostVars, pool_tasks, task_start, task_wait, gfx, ui,
                   destroyed, crashed, dangling, histVars>>

\* nvidia_unload returns, or the adapter's destruction fails.
task_unloaded ==
    /\ Alive /\ task_body.pc = "unloading"
    /\ \E ok \in BOOLEAN :
        /\ EndDestruct(ok)
        /\ task_body' = [task_body EXCEPT !.pc = IF ok THEN "load" ELSE "unload_failed"]
    /\ UNCHANGED <<tickVars, bufVars, factoryVars, provider, provider_ready, provider_lock,
                   provider_task, nvidia_fx, hostVars, pool_tasks, task_start, task_wait,
                   gfx, ui, destroyed, dangling, histVars>>

\* Variant of ReadyAfterLoad used to test the sensitivity of the properties.
ReadyAfterLoad_Stale == provider_ready

\* task_switch_provider, line 460: _provider_ready = true.
ReadyAfterLoad == TRUE

\* Lines 455-465 on the success path: set ready, return (the lock is released).
TaskCommit ==
    /\ provider_ready' = ReadyAfterLoad
    /\ provider_lock' = UnlockedBy(Task)
    /\ task_body' = NoBody
    /\ load_failed' = FALSE

\* Variant of LoadTarget used to test the sensitivity of the properties.
LoadTarget_Captured == task_body.spd

\* task_switch_provider, line 441: switch (_provider), the identity that is
\* active when the task gets here, not one captured at the request.
LoadTarget == provider

\* task_switch_provider, lines 440-453: load the provider that is active now.
\* nvidia_load constructs a new adapter before _nvidia_fx is assigned.
task_load ==
    /\ Alive /\ task_body.pc = "load"
    /\ \E i \in FxIds : fx_state[i] = "free"
    /\ IF LoadTarget = NVIDIA_GREEN_SCREEN
       THEN /\ fx_state' = [fx_state EXCEPT ![FreeFx] = "constructing"]
            /\ task_body' = [task_body EXCEPT !.pc = "loading"]
            /\ UNCHANGED <<provider_ready, provider_lock, load_failed, nvidia_fx,
                           fx_bufs>>
       ELSE /\ TaskCommit
            /\ UNCHANGED fxVars
    /\ UNCHANGED <<tickVars, bufVars, factoryVars, provider, provider_task, hostVars, pool_tasks,
                   task_start, task_wait, gfx, ui, destroyed, crashed, dangling,
                   last_requested, rapid>>

\* The catch of line 461: the error is logged, _provider_ready is not written.
TaskCatch ==
    /\ provider_lock' = UnlockedBy(Task)
    /\ task_body' = NoBody
    /\ load_failed' = TRUE
    /\ UNCHANGED provider_ready

\* background_removal::background_removal, lines 61-104, returns or throws.
\*   "ok":    the adapter is complete (effect created, five buffers allocated by
\*            resize(160, 90), effect loaded); _nvidia_fx is assigned and the
\*            adapter it pointed to is destroyed.
\*   "throw": an accelerator call failed; the members built so far are released
\*            and std::runtime_error reaches the catch of line 461.
task_loaded ==
    /\ Alive /\ task_body.pc = "loading"
    /\ \E r \in {"ok", "throw"} :
        IF r = "ok"
        THEN /\ nvidia_fx' = Constructing
             /\ fx_bufs' = [fx_bufs EXCEPT ![Constructing] = BuffersPerAdapter]
             /\ IF nvidia_fx # NoFx
                THEN /\ fx_state' = [fx_state EXCEPT ![Constructing] = "live",
                                                     ![nvidia_fx] = "destructing"]
                     /\ task_body' = [task_body EXCEPT !.pc = "replacing"]
                     /\ UNCHANGED <<provider_ready, provider_lock, load_failed>>
                ELSE /\ fx_state' = [fx_state EXCEPT ![Constructing] = "live"]
                     /\ TaskCommit
        ELSE /\ fx_state' = [fx_state EXCEPT ![Constructing] = "free"]
             /\ TaskCatch
             /\ UNCHANGED <<nvidia_fx, fx_bufs>>
    /\ UNCHANGED <<tickVars, bufVars, factoryVars, provider, provider_task, hostVars, pool_tasks,
                   task_start, task_wait, gfx, ui, destroyed, crashed, dangling,
                   last_requested, rapid>>

\* nvidia_load, line 470: the assignment releases the adapter that was loaded.
task_replaced ==
    /\ Alive /\ task_body.pc = "replacing"
    /\ \E ok \in BOOLEAN :
        /\ EndDestruct(ok)
        /\ IF ok
           THEN TaskCommit
           ELSE /\ task_body' = [task_body EXCEPT !.pc = "replace_failed"]
                /\ UNCHANGED <<provider_ready, provider_lock, load_failed>>
    /\ UNCHANGED <<tickVars, bufVars, factoryVars, provider, provider_task, nvidia_fx, hostVars,
                   pool_tasks, task_start, task_wait, gfx, ui, destroyed, dangling,
                   last_requested, rapid>>

\* ---------------------------------------------------- graphics thread
\* What obs_filter_get_target and obs_source_get_base_width/height can give.
Targets == {[exists |-> FALSE, size |-> <<0, 0>>]}
           \cup {[exists |-> TRUE, size |-> s] : s \in TargetSizes}

\* Variant of TickAsksProvider used to test the sensitivity of the properties.
TickAsksProvider_NoTarget(t) == provider_ready

\* video_tick, line 209: if (target && _provider_ready)
TickAsksProvider(t) == t.exists /\ provider_ready

\* video_tick, lines 200-224, up to the lock.
video_tick(t) ==
    /\ Alive /\ gfx.pc = "idle"
    /\ TickBegins(t)
    /\ in_size' = t.size
    /\ out_size' = t.size
    /\ IF TickAsksProvider(t)
       THEN /\ gfx' = [gfx EXCEPT !.pc = "tick_lock"]
            /\ UNCHANGED dirty
       ELSE /\ dirty' = TRUE
            /\ UNCHANGED gfx
    /\ UNCHANGED <<bufVars, factoryVars, provider, provider_ready, provider_lock,
                   provider_task, mask, masked, fxVars, poolVars, ui, destroyed,
                   crashed, dangling, histVars>>

\* Variant of TickCanLock used to test the sensitivity of the properties.
TickCanLock_Unguarded == TRUE

\* The tick's std::unique_lock, line 210.
TickCanLock == CanLock

tick_lock ==
    /\ Alive /\ gfx.pc = "tick_lock"
    /\ TickCanLock
    /\ provider_lock' = Gfx
    /\ gfx' = [gfx EXCEPT !.pc = "tick_size"]
    /\ UNCHANGED <<tickVars, bufVars, factoryVars, provider, provider_ready, provider_task, hostVars,
                   fxVars, poolVars, ui, destroyed, crashed, dangling, histVars>>

\* background_removal::size, lines 106-112: the output size is the input size.
size(input_size) == input_size

\* video_tick, lines 212-223: nvidia_size (lines 478-486), unlock, _dirty = true.
tick_size ==
    /\ Alive /\ gfx.pc = "tick_size"
    /\ out_size' = IF provider = NVIDIA_GREEN_SCREEN /\ nvidia_fx # NoFx
                   THEN size(in_size) ELSE out_size
    /\ dirty' = TRUE
    /\ UNCHANGED tickVars
    /\ provider_lock' = UnlockedBy(Gfx)
    /\ gfx' = IdleGfx
    /\ UNCHANGED <<bufVars, factoryVars, provider, provider_ready, provider_task, in_size,
                   mask, masked, fxVars, poolVars, ui, destroyed, crashed, dangling,
                   histVars>>

\* Variant of RenderSkips used to test the sensitivity of the properties.
RenderSkips_IgnoresReady(ready, s) == s[1] = 0 \/ s[2] = 0

\* video_render, line 242: the filter is skipped if the provider is not ready
\* or the target is missing or empty.
RenderSkips(ready, s) == ~ready \/ s[1] = 0 \/ s[2] = 0

\* Variant of RenderRecomputes used to test the sensitivity of the properties.
RenderRecomputes_CleanToo == dirty \/ masked.by # "none"

\* Variant of RenderRecomputes used to test the sensitivity of the properties.
RenderRecomputes_Always == TRUE

\* video_render, line 253: if (_dirty)
RenderRecomputes == dirty

\* video_render, lines 226-253; with a clean cache, lines 367-376 draw _masked.
video_render(s) ==
    /\ Alive /\ gfx.pc = "idle"
    /\ IF ~RenderSkips(provider_ready, s) /\ RenderRecomputes
       THEN /\ gfx' = [pc |-> "r_lock", size |-> s, fx |-> NoFx,
                         entry_ready |-> provider_ready, invoked_ready |-> FALSE]
            /\ UNCHANGED tickVars
       ELSE /\ UNCHANGED gfx
            /\ RenderReturns
    /\ UNCHANGED <<bufVars, factoryVars, provider, provider_ready, provider_lock,
                   provider_task, hostVars, fxVars, poolVars, ui, destroyed, crashed,
                   dangling, histVars>>

\* Variant of RenderCanLock used to test the sensitivity of the properties.
RenderCanLock_Unguarded == TRUE

\* The render's std::unique_lock, line 255.
RenderCanLock == CanLock

render_lock ==
    /\ Alive /\ gfx.pc = "r_lock"
    /\ RenderCanLock
    /\ provider_lock' = Gfx
    /\ gfx' = [gfx EXCEPT !.pc = "r_capture"]
    /\ UNCHANGED <<tickVars, bufVars, factoryVars, provider, provider_ready, provider_task, hostVars,
                   fxVars, poolVars, ui, destroyed, crashed, dangling, histVars>>

\* Variant of RenderSkip used to test the sensitivity of the properties.
RenderSkip_KeepsLock ==
    /\ gfx' = IdleGfx
    /\ RenderReturns
    /\ UNCHANGED provider_lock

\* A return out of the locked block: skip the filter, release the lock.
RenderSkip ==
    /\ provider_lock' = UnlockedBy(Gfx)
    /\ gfx' = IdleGfx
    /\ RenderReturns

\* video_render, lines 257-317: capture, then hand the capture to the provider.
\* nvidia_process (lines 488-496) uses the capture as the mask when no adapter
\* is loaded, and calls the adapter's process otherwise.
\* Variant of MaskMissing used to test the sensitivity of the properties.
MaskMissing_Never(m) == FALSE

\* video_render, line 313: if (!_mask)
MaskMissing(m) == m = "none"

render_capture ==
    /\ Alive /\ gfx.pc = "r_capture"
    /\ \E begin_ok \in BOOLEAN :
        IF ~begin_ok
        THEN /\ RenderSkip
             /\ UNCHANGED mask
        ELSE IF provider # NVIDIA_GREEN_SCREEN
        THEN /\ mask' = "none"
             /\ IF MaskMissing("none")
                THEN RenderSkip
                ELSE /\ gfx' = [gfx EXCEPT !.pc = "r_composite"]
                     /\ UNCHANGED <<provider_lock, tickVars>>
        ELSE IF nvidia_fx = NoFx
        THEN /\ mask' = "input"
             /\ gfx' = [gfx EXCEPT !.pc = "r_composite"]
             /\ UNCHANGED <<provider_lock, tickVars>>
        ELSE /\ gfx' = [gfx EXCEPT !.pc = "r_in_process", !.fx = nvidia_fx,
                                   !.invoked_ready = provider_ready]
             /\ UNCHANGED <<provider_lock, mask, tickVars>>
    /\ UNCHANGED <<bufVars, factoryVars, provider, provider_ready, provider_task, in_size,
                   out_size, dirty, masked, fxVars, poolVars, ui, destroyed, crashed,
                   dangling, histVars>>

\* background_removal::process returns its output texture or throws (line 308).
render_processed ==
    /\ Alive /\ gfx.pc = "r_in_process"
    /\ \E ok \in BOOLEAN :
        IF ok
        THEN /\ mask' = "output"
             /\ gfx' = [gfx EXCEPT !.pc = "r_composite"]
             /\ UNCHANGED <<provider_lock, tickVars>>
        ELSE /\ RenderSkip
             /\ UNCHANGED mask
    /\ UNCHANGED <<bufVars, factoryVars, provider, provider_ready, provider_task, in_size,
                   out_size, dirty, masked, fxVars, poolVars, ui, destroyed, crashed,
                   dangling, histVars>>

\* video_render, lines 319-376: composite the capture with the mask into
\* _masked, clear _dirty, unlock and draw _masked.
render_composite ==
    /\ Alive /\ gfx.pc = "r_composite"
    /\ \E ok \in BOOLEAN :
        IF ok
        THEN /\ masked' = [by |-> mask, size |-> gfx.size]
             /\ dirty' = FALSE
             /\ provider_lock' = UnlockedBy(Gfx)
             /\ gfx' = IdleGfx
             /\ RenderReturns
        ELSE /\ RenderSkip
             /\ UNCHANGED <<masked, dirty>>
    /\ UNCHANGED <<bufVars, factoryVars, provider, provider_ready, provider_task, in_size,
                   out_size, mask, fxVars, poolVars, ui, destroyed, crashed, dangling,
                   histVars>>

\* ------------------------------------------------------- destruction
\* ~background_removal_instance, line 120: the host destroys the filter when
\* none of its callbacks is running.
destructor_lock ==
    /\ Alive /\ ui.pc = "idle" /\ gfx.pc = "idle"
    /\ CanLock
    /\ provider_lock' = Ui
    /\ ui' = [ui EXCEPT !.pc = "d_unload"]
    /\ rapid' = IF rapid = "off" THEN "off" ELSE "r0"
    /\ UNCHANGED <<tickVars, bufVars, factoryVars, provider, provider_ready, provider_task, hostVars,
                   fxVars, poolVars, gfx, destroyed, crashed, dangling, last_requested,
                   load_failed>>

\* ~background_removal_instance, lines 121-129: unload the active provider.
destructor_unload ==
    /\ ~crashed /\ ui.pc = "d_unload"
    /\ IF provider = NVIDIA_GREEN_SCREEN /\ nvidia_fx # NoFx
       THEN /\ BeginUnload
            /\ ui' = [ui EXCEPT !.pc = "d_unloading"]
       ELSE /\ ui' = [ui EXCEPT !.pc = "d_members"]
            /\ UNCHANGED fxVars
    /\ UNCHANGED <<tickVars, bufVars, factoryVars, provider, provider_ready, provider_lock,
                   provider_task, hostVars, poolVars, gfx, destroyed, crashed, dangling,
                   histVars>>

destructor_unloaded ==
    /\ ~crashed /\ ui.pc = "d_unloading"
    /\ \E ok \in BOOLEAN :
        /\ EndDestruct(ok)
        /\ ui' = [ui EXCEPT !.pc = IF ok THEN "d_members" ELSE "unload_failed"]
    /\ UNCHANGED <<tickVars, bufVars, factoryVars, provider, provider_ready, provider_lock,
                   provider_task, nvidia_fx, hostVars, poolVars, gfx, destroyed,
                   dangling, histVars>>

\* ~background_removal_instance, line 130: the lock is released and the
\* members are destroyed; an adapter _nvidia_fx still points to goes with them.
destructor_members ==
    /\ ~crashed /\ ui.pc = "d_members"
    /\ provider_lock' = UnlockedBy(Ui)
    /\ destroyed' = TRUE
    /\ IF nvidia_fx # NoFx
       THEN /\ BeginUnload
            /\ ui' = [ui EXCEPT !.pc = "d_member_fx"]
       ELSE /\ ui' = [ui EXCEPT !.pc = "gone"]
            /\ UNCHANGED fxVars
    /\ UNCHANGED <<tickVars, bufVars, factoryVars, provider, provider_ready, provider_task, hostVars,
                   poolVars, gfx, crashed, dangling, histVars>>

destructor_member_fx ==
    /\ ~crashed /\ ui.pc = "d_member_fx"
    /\ \E ok \in BOOLEAN :
        /\ EndDestruct(ok)
        /\ ui' = [ui EXCEPT !.pc = IF ok THEN "gone" ELSE "unload_failed"]
    /\ UNCHANGED <<tickVars, bufVars, factoryVars, provider, provider_ready, provider_lock,
                   provider_task, nvidia_fx, hostVars, poolVars, gfx, destroyed,
                   dangling, histVars>>

\* ------------------------------------------------------ specification
Next ==
    \/ \E p \in Providers : update(p)
    \/ switch_provider
    \/ update_ready
    \/ update_lock
    \/ update_unlock
    \/ worker_take
    \/ \E spd \in Providers : task_dangling(spd)
    \/ \E spd \in Providers : task_mark_not_ready(spd)
    \/ \E spd \in Providers : task_lock(spd)
    \/ task_unload
    \/ task_unloaded
    \/ task_load
    \/ task_loaded
    \/ task_replaced
    \/ \E t \in Targets : video_tick(t)
    \/ tick_lock
    \/ tick_size
    \/ \E s \in TargetSizes : video_render(s)
    \/ render_lock
    \/ render_capture
    \/ render_processed
    \/ render_composite
    \/ destructor_lock
    \/ destructor_unload
    \/ destructor_unloaded
    \/ destructor_members
    \/ destructor_member_fx

Spec == Init /\ [][Next]_vars

\* The switch controller alone: settings thread, thread pool and destructor.
NextSwitch ==
    \/ \E p \in Providers : update(p)
    \/ switch_provider
    \/ update_ready
    \/ update_lock
    \/ update_unlock
    \/ worker_take
    \/ \E spd \in Providers : task_dangling(spd)
    \/ \E spd \in Providers : task_mark_not_ready(spd)
    \/ \E spd \in Providers : task_lock(spd)
    \/ task_unload
    \/ task_unloaded
    \/ task_load
    \/ task_loaded
    \/ task_replaced
    \/ destructor_lock
    \/ destructor_unload
    \/ destructor_unloaded
    \/ destructor_members
    \/ destructor_member_fx

\* The runtimes the factory loads, in the order of lines 545-547.
FactoryLoads == <<"nvcuda", "nvcvi", "nvvfx">>

\* What a loader throws: std::runtime_error (nvidia-vfx.cpp 57, 100, 106, 116;
\* nvidia-cv.cpp 62, 123, 147, 152) or what std::filesystem::exists throws.
LoaderExceptions == {"runtime_error", "filesystem_error"}

FactoryFailures ==
    {[at |-> 0, what |-> "none"]}
        \cup [at : 1..Len(FactoryLoads), what : LoaderExceptions]

\* Variant of CaughtByFactory used to test the sensitivity of the properties.
CaughtByFactory_Nothing(what) == FALSE

\* catch (const std::exception& ex), line 551.
CaughtByFactory(what) == what \in {"runtime_error", "filesystem_error"}

\* background_removal_factory::background_removal_factory
factory_constructor(f) ==
    /\ ~factory.constructed /\ ~factory.escaped
    /\ LET thrown == f.at # 0
           caught == thrown /\ CaughtByFactory(f.what)
           any_available == ~thrown
       IN
        IF thrown /\ ~caught
        THEN /\ factory' = [NoFactory EXCEPT !.escaped = TRUE]
             /\ UNCHANGED nvidia_available
        ELSE /\ nvidia_available' = ~thrown
             /\ factory' = [constructed |-> TRUE,
                            nvcuda |-> ~thrown, nvcvi |-> ~thrown, nvvfx |-> ~thrown,
                            registered |-> any_available,
                            warned |-> caught,
                            errored |-> ~any_available,
                            escaped |-> FALSE]
    /\ UNCHANGED <<tickVars, bufVars, loader, runtime, provider, provider_ready, provider_lock,
                   provider_task, hostVars, fxVars, poolVars, gfx, ui, destroyed,
                   crashed, dangling, histVars>>

\* The host creates instances of a registered effect only.
NextFactory ==
    \/ \E f \in FactoryFailures : factory_constructor(f)
    \/ (factory.registered /\ NextSwitch)

\* _nvidia_available has no initializer (filter-background-removal.hpp:100).
InitFactory ==
    /\ nvidia_available \in BOOLEAN
    /\ factory = NoFactory
    /\ loader = NoLoader
    /\ runtime = NoRuntime
    /\ InitMembers /\ InitBuffers
    /\ rapid = "off" /\ tick_phase = "off" /\ tick_target = UntrackedTarget

SpecFactory == InitFactory /\ [][NextFactory]_vars

\* ------------------------------------------------------- the graphics context
\* The host calls video_render with its graphics context entered, and leaves
\* it when the call returns.
RenderHoldsGraphics == gfx.pc \in {"r_lock", "r_capture", "r_in_process", "r_composite"}

\* gs::context at nvidia-vfx-background-removal.cpp:43 and :67: the adapter's
\* constructor and destructor enter the graphics context for their whole body.
TaskHoldsGraphics == task_body.pc \in {"unloading", "loading", "replacing"}

\* The task's next step is nvidia_unload of a loaded adapter, or nvidia_load.
TaskWantsGraphics ==
    \/ task_body.pc = "unload" /\ task_body.spd = NVIDIA_GREEN_SCREEN /\ nvidia_fx # NoFx
    \/ task_body.pc = "load" /\ provider = NVIDIA_GREEN_SCREEN

\* The host enters the graphics context, then calls video_render.
ctx_video_render(s) == ~TaskHoldsGraphics /\ video_render(s)

\* nvidia_unload: ~background_removal waits for the graphics context.
ctx_task_unload == (TaskWantsGraphics => ~RenderHoldsGraphics) /\ task_unload

\* nvidia_load: background_removal() waits for the graphics context.
ctx_task_load == (TaskWantsGraphics => ~RenderHoldsGraphics) /\ task_load

NextContext ==
    \/ \E p \in Providers : update(p)
    \/ switch_provider
    \/ update_ready
    \/ update_lock
    \/ update_unlock
    \/ worker_take
    \/ \E spd \in Providers : task_mark_not_ready(spd)
    \/ \E spd \in Providers : task_lock(spd)
    \/ ctx_task_unload
    \/ task_unloaded
    \/ ctx_task_load
    \/ task_loaded
    \/ task_replaced
    \/ \E t \in Targets : video_tick(t)
    \/ tick_lock
    \/ tick_size
    \/ \E s \in TargetSizes : ctx_video_render(s)
    \/ render_lock
    \/ render_capture
    \/ render_processed
    \/ render_composite

\* The live instance, with the graphics context its threads compete for.
InitContext == InitInstance /\ InitBuffers /\ rapid = "off" /\ tick_phase = "off" /\ tick_target = UntrackedTarget

SpecContext == InitContext /\ [][NextContext]_vars

\* ------------------------------------------------------- locating the libraries
\* What a location holds: nothing ("absent": the path does not exist), a file
\* util::library::load rejects ("bad") or a library it loads ("good"). An
\* environment variable may also be unset.
LocationStates == {"absent", "bad", "good"}
EnvStates == {"unset"} \cup LocationStates

\* The tail of both constructors: the library is kept, or the constructor throws.
Located(l, tried, from) ==
    [l EXCEPT !.tried = tried, !.loaded = from,
              !.state = IF from = "none" THEN "failed" ELSE "loaded"]

\* nvidia::vfx::vfx::vfx, lines 65-118: the search path first; then, on
\* Windows, the path of NV_VIDEO_EFFECTS_PATH if it is set and otherwise the
\* install directory under Program Files.
VfxLocate(l) ==
    IF l.search = "good" THEN Located(l, <<"search">>, "search")
    ELSE IF ~l.win32 THEN Located(l, <<"search">>, "none")
    ELSE LET from == IF l.vfx_env # "unset" THEN "vfx_env" ELSE "vfx_dir"
             at == IF l.vfx_env # "unset" THEN l.vfx_env ELSE l.vfx_dir
         IN  IF at = "absent" THEN Located(l, <<"search">>, "none")
             ELSE Located(l, <<"search", from>>, IF at = "good" THEN from ELSE "none")

\* nvidia::cv::cv::cv, lines 86-121: the two paths the constructor computes. The
\* branch for an unset NV_AR_SDK_PATH assigns the AR install directory to
\* _vfx_sdk_path and leaves _ar_sdk_path empty.
CvPaths(l) ==
    LET vfx == IF l.vfx_env # "unset" THEN [from |-> "vfx_env", at |-> l.vfx_env]
               ELSE [from |-> "vfx_dir", at |-> l.vfx_dir]
    IN  IF l.ar_env # "unset"
        THEN <<vfx, [from |-> "ar_env", at |-> l.ar_env]>>
        ELSE <<[from |-> "ar_dir", at |-> l.ar_dir], [from |-> "none", at |-> "absent"]>>

\* Lines 134-143: every path of the list is loaded in turn; a failed load is
\* logged, a successful one replaces the library loaded before it.
RECURSIVE CvLoadAll(_, _, _)
CvLoadAll(paths, tried, from) ==
    IF paths = <<>> THEN [tried |-> tried, from |-> from]
    ELSE CvLoadAll(Tail(paths), Append(tried, Head(paths).from),
                   IF Head(paths).at = "good" THEN Head(paths).from ELSE from)

\* nvidia::cv::cv::cv, lines 70-154
CvLocate(l) ==
    IF l.search = "good" THEN Located(l, <<"search">>, "search")
    ELSE IF ~l.win32 THEN Located(l, <<"search">>, "none")
    ELSE LET lib_paths == SelectSeq(CvPaths(l), LAMBDA q : q.at # "absent")
             r == CvLoadAll(lib_paths, <<"search">>, "none")
         IN  Located(l, r.tried, r.from)

vfx_constructor ==
    /\ loader.lib = "vfx" /\ loader.state = "start"
    /\ loader' = VfxLocate(loader)
    /\ UNCHANGED <<nvidia_available, factory, runtime, tickVars, bufVars, provider, provider_ready,
                   provider_lock, provider_task, hostVars, fxVars, poolVars, gfx, ui,
                   destroyed, crashed, dangling, histVars>>

cv_constructor ==
    /\ loader.lib = "cv" /\ loader.state = "start"
    /\ loader' = CvLocate(loader)
    /\ UNCHANGED <<nvidia_available, factory, runtime, tickVars, bufVars, provider, provider_ready,
                   provider_lock, provider_task, hostVars, fxVars, poolVars, gfx, ui,
                   destroyed, crashed, dangling, histVars>>

NextLocate == vfx_constructor \/ cv_constructor

\* A runtime is about to be constructed on a machine where each location
\* holds, or does not hold, the library.
InitLocate ==
    /\ nvidia_available = FALSE
    /\ factory = NoFactory
    /\ runtime = NoRuntime
    /\ loader \in [lib : {"vfx", "cv"}, win32 : BOOLEAN, search : LocationStates,
                    vfx_env : EnvStates, vfx_dir : LocationStates,
                    ar_env : EnvStates, ar_dir : LocationStates,
                    tried : {<<>>}, loaded : {"none"}, state : {"start"}]
    /\ InitMembers /\ InitBuffers
    /\ rapid = "off" /\ tick_phase = "off" /\ tick_target = UntrackedTarget

SpecLocate == InitLocate /\ [][NextLocate]_vars

\* ------------------------------------------------------- the runtime singleton
\* Instances one process makes while it is followed.
MaxRuntimes == 3

\* Owners of the shared_ptr control block of instance i: std::shared_ptr's
\* use_count.
UseCount(i) == Cardinality({c \in Callers : runtime.th[c].h = i})

\* std::weak_ptr::expired on the static instance
Expired == runtime.weak = 0 \/ UseCount(runtime.weak) = 0

OtherVars == <<nvidia_available, factory, loader, tickVars, bufVars, provider,
               provider_ready, provider_lock, provider_task, hostVars, fxVars, poolVars,
               gfx, ui, destroyed, crashed, dangling, histVars>>

\* get, line 152: std::unique_lock<std::mutex> ul(lock)
get_lock(c) ==
    /\ runtime.th[c].pc = "idle"
    /\ runtime.lock = "free"
    /\ runtime.made < MaxRuntimes
    /\ runtime' = [runtime EXCEPT !.lock = c, !.th[c].pc = "locked"]
    /\ UNCHANGED OtherVars

\* get, line 153: if (instance.expired())
get_expired(c) ==
    /\ runtime.th[c].pc = "locked"
    /\ runtime' = [runtime EXCEPT !.th[c].pc = IF Expired THEN "make" ELSE "share"]
    /\ UNCHANGED OtherVars

\* get, lines 154-156: make_shared, which runs the constructor, then the
\* assignment to the static weak_ptr and the return. A throwing constructor
\* leaves the weak_ptr as it was.
get_make(c) ==
    /\ runtime.th[c].pc = "make"
    /\ \E ok \in BOOLEAN :
        runtime' =
            IF ok
            THEN [runtime EXCEPT !.made = @ + 1, !.objs = Append(@, "alive"),
                                 !.weak = runtime.made + 1, !.lock = "free",
                                 !.th[c] = [pc |-> "holding", h |-> runtime.made + 1]]
            ELSE [runtime EXCEPT !.lock = "free", !.th[c].pc = "idle"]
    /\ UNCHANGED OtherVars

\* get, line 158: return instance.lock(), which yields an empty pointer when
\* the instance has expired by now.
get_share(c) ==
    /\ runtime.th[c].pc = "share"
    /\ runtime' = [runtime EXCEPT !.lock = "free",
                                  !.th[c] = [pc |-> "holding",
                                             h |-> IF Expired THEN 0 ELSE runtime.weak]]
    /\ UNCHANGED OtherVars

\* A caller drops its std::shared_ptr; the last owner starts the destructor.
release(c) ==
    /\ runtime.th[c].pc = "holding"
    /\ LET i == runtime.th[c].h IN
        runtime' = [runtime EXCEPT
                        !.th[c] = [pc |-> "idle", h |-> 0],
                        !.objs = IF i # 0 /\ UseCount(i) = 1
                                 THEN [@ EXCEPT ![i] = "destructing"] ELSE @]
    /\ UNCHANGED OtherVars

\* ~vfx / ~cv, and the release of the library, have finished.
runtime_destructed(i) ==
    /\ i \in 1..Len(runtime.objs)
    /\ runtime.objs[i] = "destructing"
    /\ runtime' = [runtime EXCEPT !.objs[i] = "gone"]
    /\ UNCHANGED OtherVars

NextRuntime ==
    \/ \E c \in Callers : get_lock(c)
    \/ \E c \in Callers : get_expired(c)
    \/ \E c \in Callers : get_make(c)
    \/ \E c \in Callers : get_share(c)
    \/ \E c \in Callers : release(c)
    \/ \E i \in 1..MaxRuntimes : runtime_destructed(i)

\* A process in which no runtime has been made yet.
InitRuntime ==
    /\ nvidia_available = FALSE
    /\ factory = NoFactory
    /\ loader = NoLoader
    /\ runtime = [NoRuntime EXCEPT !.th = [c \in Callers |-> [pc |-> "idle", h |-> 0]]]
    /\ InitMembers /\ InitBuffers
    /\ rapid = "off" /\ tick_phase = "off" /\ tick_target = UntrackedTarget

SpecRuntime == InitRuntime /\ [][NextRuntime]_vars

NextTick ==
    \/ \E p \in Providers : update(p)
    \/ switch_provider
    \/ update_ready
    \/ update_lock
    \/ update_unlock
    \/ worker_take
    \/ \E spd \in Providers : task_mark_not_ready(spd)
    \/ \E spd \in Providers : task_lock(spd)
    \/ task_unload
    \/ task_unloaded
    \/ task_load
    \/ task_loaded
    \/ task_replaced
    \/ \E t \in Targets : video_tick(t)
    \/ tick_lock
    \/ tick_size
    \/ \E s \in TargetSizes : video_render(s)
    \/ render_lock
    \/ render_capture
    \/ render_processed
    \/ render_composite

\* The live instance with the frame a switch was requested in tracked.
InitTick == InitInstance /\ InitBuffers /\ rapid = "off" /\ tick_phase = "idle" /\ tick_target = UntrackedTarget

SpecTick == InitTick /\ [][NextTick]_vars

\* The same steps with what each tick read from the host kept.
InitTarget ==
    /\ InitInstance /\ InitBuffers /\ rapid = "off" /\ tick_phase = "off"
    /\ tick_target = UnreadTarget

SpecTarget == InitTarget /\ [][NextTick]_vars

\* The switch controller with the away-and-back-twice scenario tracked.
InitRapid == InitInstance /\ InitBuffers /\ rapid = "r0" /\ tick_phase = "off" /\ tick_target = UntrackedTarget

SpecRapid == InitRapid /\ [][NextSwitch]_vars

\* ------------------------------------------------- resizing the buffers
\* Points at which an accelerator call of background_removal::resize can fail.
ResizeFailures ==
    {"none", "in_unmap", "in_dealloc", "in_init", "in_map", "source", "set_in",
     "set_mode", "destination", "out_unmap", "out_dealloc", "out_init", "out_map",
     "set_out"}

\* nvidia::cv::texture::free: NvCVImage_UnmapResource, then NvCVImage_Dealloc;
\* either throws on failure. fail is "unmap", "dealloc" or anything else.
texture_free(t, fail) ==
    IF fail = "unmap"
    THEN [t |-> t, ops |-> NoOps, thrown |-> TRUE]
    ELSE IF fail = "dealloc"
    THEN [t |-> [t EXCEPT !.mapped = FALSE],
          ops |-> [NoOps EXCEPT !.unmap = 1], thrown |-> TRUE]
    ELSE [t |-> [t EXCEPT !.mapped = FALSE, !.buf = NoSize],
          ops |-> [NoOps EXCEPT !.unmap = 1, !.dealloc = 1], thrown |-> FALSE]

\* nvidia::cv::texture::alloc: NvCVImage_InitFromD3D11Texture, then
\* NvCVImage_MapResource; either throws on failure.
texture_alloc(t, ops, fail) ==
    IF fail = "init"
    THEN [t |-> t, ops |-> ops, thrown |-> TRUE]
    ELSE IF fail = "map"
    THEN [t |-> [t EXCEPT !.buf = t.tex],
          ops |-> [ops EXCEPT !.alloc = 1], thrown |-> TRUE]
    ELSE [t |-> [t EXCEPT !.buf = t.tex, !.mapped = TRUE],
          ops |-> [ops EXCEPT !.alloc = 1, !.map = 1], thrown |-> FALSE]

\* nvidia::cv::texture::resize: free(), a new graphics texture, alloc(); it does
\* not compare the size with the present one.
texture_resize(t, s, fail) ==
    LET f == texture_free(t, fail)
    IN  IF f.thrown THEN f
        ELSE texture_alloc([f.t EXCEPT !.tex = s], f.ops, fail)

\* nvidia::cv::image::resize: the image is reallocated if the size differs.
image_resize(b, s, fail) ==
    IF fail THEN [b |-> b, ops |-> NoOps, thrown |-> TRUE]
    ELSE IF b = s THEN [b |-> b, ops |-> NoOps, thrown |-> FALSE]
    ELSE [b |-> s, ops |-> [NoOps EXCEPT !.dealloc = 1, !.alloc = 1], thrown |-> FALSE]

\* The tests of lines 193-194 and 224-225 on a constructed adapter.
SizeDiffers(t, s) == s[1] # t.tex[1] \/ s[2] # t.tex[2]

TextureFail(f, role) ==
    IF role = "input"
    THEN (CASE f = "in_unmap" -> "unmap" [] f = "in_dealloc" -> "dealloc"
            [] f = "in_init" -> "init" [] f = "in_map" -> "map" [] OTHER -> "none")
    ELSE (CASE f = "out_unmap" -> "unmap" [] f = "out_dealloc" -> "dealloc"
            [] f = "out_init" -> "init" [] f = "out_map" -> "map" [] OTHER -> "none")

\* background_removal::resize, lines 192-221: the input and the source.
ResizeInput(st, s, f) ==
    IF ~SizeDiffers(st.a.input, s) THEN st
    ELSE
      LET i == texture_resize(st.a.input, s, TextureFail(f, "input"))
          a1 == [st.a EXCEPT !.input = i.t]
          o1 == [st.ops EXCEPT !["input"] = i.ops]
      IN  IF i.thrown THEN [st EXCEPT !.a = a1, !.ops = o1, !.thrown = TRUE]
          ELSE
            LET r == image_resize(a1.source, s, f = "source")
                a2 == [a1 EXCEPT !.source = r.b]
                o2 == [o1 EXCEPT !["source"] = r.ops]
            IN  IF r.thrown \/ f = "set_in"
                THEN [st EXCEPT !.a = a2, !.ops = o2, !.thrown = TRUE]
                ELSE IF f = "set_mode"
                THEN [st EXCEPT !.a = [a2 EXCEPT !.rebound = TRUE], !.ops = o2,
                                !.thrown = TRUE]
                ELSE [st EXCEPT !.a = [a2 EXCEPT !.dirty = TRUE, !.rebound = TRUE],
                                !.ops = o2, !.rebind = st.rebind + 1]

\* background_removal::resize, lines 223-250: the destination and the output.
ResizeOutput(st, s, f) ==
    IF st.thrown \/ ~SizeDiffers(st.a.output, s) THEN st
    ELSE
      LET r == image_resize(st.a.destination, s, f = "destination")
          a1 == [st.a EXCEPT !.destination = r.b]
          o1 == [st.ops EXCEPT !["destination"] = r.ops]
      IN  IF r.thrown THEN [st EXCEPT !.a = a1, !.ops = o1, !.thrown = TRUE]
          ELSE
            LET o == texture_resize(a1.output, s, TextureFail(f, "output"))
                a2 == [a1 EXCEPT !.output = o.t]
                o2 == [o1 EXCEPT !["output"] = o.ops]
            IN  IF o.thrown \/ f = "set_out"
                THEN [st EXCEPT !.a = a2, !.ops = o2, !.thrown = TRUE]
                ELSE [st EXCEPT !.a = [a2 EXCEPT !.dirty = TRUE, !.rebound = TRUE],
                                !.ops = o2, !.rebind = st.rebind + 1]

\* background_removal::resize enters both contexts (lines 183-184), and so do
\* the texture::resize calls it makes (nvidia-cv-texture.cpp:71-75).
ResizeGpu(ops) ==
    IF ops = NoRoleOps THEN <<>> ELSE <<GpuOp("resize", TRUE, TRUE)>>

\* background_removal::resize(width, height), lines 181-251.
resize(s, f) ==
    LET st0 == [a |-> adapter, ops |-> NoRoleOps, rebind |-> 0, thrown |-> FALSE]
        st == ResizeOutput(ResizeInput(st0, s, f), s, f)
    IN  /\ adapter.exists
        /\ adapter' = st.a
        /\ call' = [n |-> 1 - call.n, kind |-> "resize", size |-> s, ops |-> st.ops,
                    rebind |-> st.rebind, thrown |-> st.thrown,
                    refused |-> IF st.thrown THEN f ELSE "none", steps |-> <<>>,
                    gpu |-> ResizeGpu(st.ops)]
        /\ UNCHANGED <<nv_rt, instanceVars>>

\* background_removal::load, lines 253-275: _dirty = false once the effect is
\* loaded; a failing call throws before that.
load ==
    /\ adapter.exists /\ adapter.dirty
    /\ \E ok \in BOOLEAN :
        /\ adapter' = IF ok THEN [adapter EXCEPT !.dirty = FALSE, !.rebound = FALSE]
                      ELSE adapter
        /\ call' = [NoCall EXCEPT !.n = 1 - call.n, !.kind = "load", !.thrown = ~ok,
                                  !.refused = IF ok THEN "none" ELSE "load"]
    /\ UNCHANGED <<nv_rt, instanceVars>>

\* background_removal::process, lines 134-175: NvCVImage_Transfer of the input
\* to the source, NvVFX_Run, NvCVImage_Transfer of the destination to the
\* output; the stream is not synchronized.
ProcessSteps == <<"transfer_in", "run", "transfer_out">>

\* process_nvidia_background_removal, lines 305-367: the context and the stream
\* are synchronized, three NvCVImage_Transfer calls are made (NvVFX_Run is
\* commented out), and the two are synchronized again.
NvProcessSteps ==
    <<"sync", "transfer_in", "transfer_working", "transfer_out", "sync">>

\* background_removal::process after its resize of line 126 has returned
\* (lines 128-178): load if dirty, then hand _input, _source, _destination and
\* _output to the accelerator (NvCVImage_Transfer, NvVFX_Run). kind is "process"
\* if the accelerator was reached and "process_failed" if load threw.
process ==
    /\ adapter.exists
    /\ call.kind = "resize" /\ ~call.thrown
    /\ \E load_ok \in BOOLEAN :
        /\ adapter' = IF adapter.dirty /\ load_ok
                      THEN [adapter EXCEPT !.dirty = FALSE, !.rebound = FALSE]
                      ELSE adapter
        /\ call' = [call EXCEPT !.n = 1 - call.n,
                                !.kind = IF adapter.dirty /\ ~load_ok
                                         THEN "process_failed" ELSE "process",
                                !.thrown = adapter.dirty /\ ~load_ok,
                                !.refused = IF adapter.dirty /\ ~load_ok
                                            THEN "load" ELSE "none",
                                !.steps = IF adapter.dirty /\ ~load_ok
                                          THEN <<>> ELSE ProcessSteps]
    /\ UNCHANGED <<nv_rt, instanceVars>>

\* Variant of DestructorSteps used to test the sensitivity of the properties.
DestructorSteps_RuntimesFirst ==
    <<"nvvfx", "nvcvi", "nvcuda", "fx", "input", "source", "destination", "output",
      "tmp">>

\* background_removal::~background_removal, lines 46-58: the members in the
\* order they are reset.
DestructorSteps ==
    <<"fx", "input", "source", "destination", "output", "tmp", "nvvfx", "nvcvi",
      "nvcuda">>

\* Points at which the destructor can fail: texture::free of _input or _output.
DestructorFailures == {"none", "in_unmap", "in_dealloc", "out_unmap", "out_dealloc"}

\* The step of the destructor at which f strikes; 0 if it does not.
FailingStep(f) ==
    IF f = "none" THEN 0
    ELSE CHOOSE i \in DOMAIN DestructorSteps :
            DestructorSteps[i] = (IF f \in {"in_unmap", "in_dealloc"}
                                  THEN "input" ELSE "output")

\* background_removal::~background_removal, lines 41-59, for nvidia_unload's
\* _nvidia_fx.reset(): each member is released in turn; an exception leaving
\* texture::~texture ends the process there (std::terminate).
adapter_destructor(f) ==
    LET n == FailingStep(f)
        done == IF n = 0 THEN DestructorSteps ELSE SubSeq(DestructorSteps, 1, n - 1)
        i == texture_free(adapter.input, TextureFail(f, "input"))
        o == texture_free(adapter.output, TextureFail(f, "output"))
    IN  /\ adapter.exists /\ ~crashed
        /\ adapter' = [adapter EXCEPT !.exists = FALSE, !.input = i.t,
                                      !.output = IF i.thrown THEN @ ELSE o.t]
        /\ call' = [NoCall EXCEPT !.n = 1 - call.n, !.kind = "destruct",
                                  !.thrown = n # 0, !.steps = done,
                                  !.ops = [NoRoleOps EXCEPT
                                             !["input"] = i.ops,
                                             !["output"] = IF i.thrown THEN NoOps
                                                           ELSE o.ops],
                                  !.refused = f,
                                  !.gpu = <<GpuOp("destroy", TRUE, TRUE)>>]
        /\ crashed' = (n # 0)
        /\ UNCHANGED <<nv_rt, tickVars, factoryVars, provider, provider_ready,
                       provider_lock, provider_task, hostVars, fxVars, poolVars, gfx,
                       ui, destroyed, dangling, histVars>>

\* Points at which an accelerator call of ensure_nvidia_rt can fail.
EnsureFailures ==
    {"none", "unmap", "dealloc", "dealloc_working", "init", "map", "alloc_working"}

\* ensure_nvidia_rt, lines 250-299, for the input target, as called by
\* video_render after _size has been set (line 178).
EnsureRt(rt, f) ==
    IF rt.texture # NoSize /\ rt.texture[1] = rt.size[1] /\ rt.texture[2] = rt.size[2]
    THEN [rt |-> rt, ops |-> NoOps, thrown |-> FALSE]
    ELSE
      LET had == rt.nvimg # NoSize
          \* lines 258-273
          f1 == IF ~had THEN [rt |-> rt, ops |-> NoOps, thrown |-> FALSE]
                ELSE IF f = "unmap" THEN [rt |-> rt, ops |-> NoOps, thrown |-> TRUE]
                ELSE IF f = "dealloc"
                THEN [rt |-> [rt EXCEPT !.mapped = FALSE],
                      ops |-> [NoOps EXCEPT !.unmap = 1], thrown |-> TRUE]
                ELSE IF f = "dealloc_working"
                THEN [rt |-> [rt EXCEPT !.mapped = FALSE, !.nvimg = NoSize],
                      ops |-> [NoOps EXCEPT !.unmap = 1, !.dealloc = 1], thrown |-> TRUE]
                ELSE [rt |-> [rt EXCEPT !.mapped = FALSE, !.nvimg = NoSize,
                                        !.working = NoSize],
                      ops |-> [NoOps EXCEPT !.unmap = 1, !.dealloc = 1], thrown |-> FALSE]
          \* lines 275-298
          t == [f1.rt EXCEPT !.texture = rt.size]
      IN  IF f1.thrown THEN f1
          ELSE IF f = "init" THEN [rt |-> t, ops |-> f1.ops, thrown |-> TRUE]
          ELSE IF f = "map"
          THEN [rt |-> [t EXCEPT !.nvimg = rt.size],
                ops |-> [f1.ops EXCEPT !.alloc = 1], thrown |-> TRUE]
          ELSE IF f = "alloc_working"
          THEN [rt |-> [t EXCEPT !.nvimg = rt.size, !.mapped = TRUE],
                ops |-> [f1.ops EXCEPT !.alloc = 1, !.map = 1], thrown |-> TRUE]
          ELSE [rt |-> [t EXCEPT !.nvimg = rt.size, !.mapped = TRUE,
                                 !.working = rt.size],
                ops |-> [f1.ops EXCEPT !.alloc = 1, !.map = 1], thrown |-> FALSE]

ensure_nvidia_rt(s, f) ==
    LET e == EnsureRt([nv_rt EXCEPT !.size = s], f)
    IN  /\ nv_rt.exists
        /\ nv_rt' = e.rt
        /\ call' = [n |-> 1 - call.n, kind |-> "ensure", size |-> s,
                    ops |-> [NoRoleOps EXCEPT !["input"] = e.ops],
                    rebind |-> 0, thrown |-> e.thrown,
                    refused |-> IF e.thrown THEN f ELSE "none", steps |-> <<>>,
                    gpu |-> IF e.ops = NoOps THEN <<>>
                            ELSE <<GpuOp("ensure_nvidia_rt", TRUE, TRUE)>>]
        /\ UNCHANGED <<adapter, instanceVars>>

\* filter-nv-background-removal, ~background_removal_instance, lines 97-120, for
\* the input target: a failing unmap or dealloc is logged (the throw is commented
\* out) and the next call is made all the same.
DestroyRt(rt, unmap_ok, dealloc_ok, working_ok) ==
    IF rt.nvimg = NoSize
    THEN [rt |-> [rt EXCEPT !.exists = FALSE, !.texture = NoSize], ops |-> NoOps]
    ELSE [rt |-> [rt EXCEPT !.exists = FALSE, !.texture = NoSize,
                            !.mapped = IF unmap_ok THEN FALSE ELSE rt.mapped,
                            !.nvimg = IF dealloc_ok THEN NoSize ELSE rt.nvimg,
                            !.working = IF working_ok THEN NoSize ELSE rt.working],
          ops |-> [NoOps EXCEPT !.unmap = IF unmap_ok THEN 1 ELSE 0,
                                !.dealloc = IF dealloc_ok THEN 1 ELSE 0]]

\* filter-nv-background-removal, ~background_removal_instance: the effect is
\* destroyed (lines 90-95) before the scope that enters the two contexts
\* (lines 97-99), in which the images are released.
NvDestructorGpu(rt) ==
    <<GpuOp("destroy_effect", FALSE, FALSE)>>
        \o (IF rt.nvimg = NoSize THEN <<>> ELSE <<GpuOp("release", TRUE, TRUE)>>)

\* filter-nv-background-removal, the constructor: the render target is made in
\* the graphics context (lines 71-74), the stream in both (lines 76-77), the
\* effect after the scope of both has ended (lines 80-85).
NvConstructorGpu ==
    <<GpuOp("create_rendertarget", TRUE, FALSE), GpuOp("create_stream", TRUE, TRUE),
      GpuOp("create_effect", FALSE, FALSE)>>

nv_destructor ==
    /\ nv_rt.exists
    /\ \E unmap_ok \in BOOLEAN, dealloc_ok \in BOOLEAN, working_ok \in BOOLEAN :
        LET d == DestroyRt(nv_rt, unmap_ok, dealloc_ok, working_ok)
        IN  /\ nv_rt' = d.rt
            /\ call' = [n |-> 1 - call.n, kind |-> "destroy", size |-> NoSize,
                        ops |-> [NoRoleOps EXCEPT !["input"] = d.ops],
                        rebind |-> 0, thrown |-> FALSE,
                        refused |-> IF nv_rt.nvimg = NoSize \/ (unmap_ok /\ dealloc_ok)
                                    THEN "none"
                                    ELSE IF unmap_ok THEN "dealloc" ELSE "unmap",
                        steps |-> <<>>, gpu |-> NvDestructorGpu(nv_rt)]
    /\ UNCHANGED <<adapter, instanceVars>>

\* Accelerator calls of process_nvidia_background_removal that can be refused.
NvProcessFailures == {"none", "transfer_in", "transfer_working", "transfer_out"}

\* filter-nv-background-removal, the constructor, lines 70-85: the render target
\* is made and NvVFX_CreateEffect is called; a refusal is logged and the
\* constructor returns all the same.
nv_constructor(create_ok) ==
    /\ ~nv_rt.exists /\ ~adapter.exists /\ ~crashed
    /\ nv_rt' = InitRt
    /\ call' = [NoCall EXCEPT !.n = 1 - call.n, !.kind = "nv_construct",
                              !.refused = IF create_ok THEN "none" ELSE "create",
                              !.gpu = NvConstructorGpu]
    /\ UNCHANGED <<adapter, instanceVars>>

\* process_nvidia_background_removal, lines 301-370: three NvCVImage_Transfer
\* calls; a refusal is logged, the calls after it are made all the same and
\* _nvidia_output is returned.
process_nvidia_background_removal(f) ==
    /\ nv_rt.exists
    /\ call' = [NoCall EXCEPT !.n = 1 - call.n, !.kind = "nv_process",
                              !.size = nv_rt.size, !.refused = f,
                              !.steps = NvProcessSteps]
    /\ UNCHANGED <<adapter, nv_rt, instanceVars>>

\* Sizes asked for when the buffers are driven alone: the size they are built
\* with and one other, so that a call both keeps and changes a size.
BufferSizes == {<<1, 1>>, <<1, 2>>}

NextResize ==
    \/ \E s \in BufferSizes, f \in ResizeFailures : resize(s, f)
    \/ load
    \/ process
    \/ \E s \in BufferSizes, f \in EnsureFailures : ensure_nvidia_rt(s, f)
    \/ nv_destructor
    \/ \E create_ok \in BOOLEAN : nv_constructor(create_ok)
    \/ \E f \in NvProcessFailures : process_nvidia_background_removal(f)
    \/ \E f \in DestructorFailures : adapter_destructor(f)

\* The buffers alone: one adapter and one render target, resized at will.
InitResize ==
    /\ InitInstance /\ rapid = "off" /\ tick_phase = "off" /\ tick_target = UntrackedTarget /\ call = NoCall
    /\ \/ adapter = InitAdapter /\ nv_rt = NoRt
       \/ adapter = NoAdapter /\ nv_rt = InitRt

SpecResize == InitResize /\ [][NextResize]_vars

\* ------------------------------------- one instance, frame after frame
\* The instance and its adapter on one thread: a switch that runs to its end,
\* then ticks and renders, with the sizes of the buffers tracked.
\* Allocation and mapping failures of the two textures.
FrameFailures == {"none", "in_map", "out_init"}

InitFrame ==
    /\ InitInstance /\ rapid = "off" /\ tick_phase = "off" /\ tick_target = UntrackedTarget
    /\ adapter = NoAdapter /\ nv_rt = NoRt /\ call = NoCall

\* update(NVIDIA_GREEN_SCREEN) on a fresh instance and its switch task run to
\* the end (lines 154-156, 383-465): the adapter is built by nvidia_load at its
\* fixed size and _provider_ready is set, or the load throws.
frame_switch ==
    /\ provider = INVALID /\ ~adapter.exists
    /\ \E ok \in BOOLEAN :
        /\ provider_ready' = ok
        /\ adapter' = IF ok THEN InitAdapter ELSE adapter
        /\ nvidia_fx' = IF ok THEN "fx_a" ELSE NoFx
        /\ fx_state' = [fx_state EXCEPT !["fx_a"] = IF ok THEN "live" ELSE "free"]
        /\ fx_bufs' = [fx_bufs EXCEPT !["fx_a"] = IF ok THEN BuffersPerAdapter ELSE 0]
        /\ load_failed' = ~ok
    /\ provider' = NVIDIA_GREEN_SCREEN
    /\ provider_task' = "task_a"
    /\ last_requested' = NVIDIA_GREEN_SCREEN
    /\ UNCHANGED <<tickVars, factoryVars, provider_lock, hostVars, poolVars, gfx, ui,
                   destroyed, crashed, dangling, rapid, nv_rt, call>>

\* video_tick, lines 200-224, with no other thread: the sizes follow the target
\* (nvidia_size reports the input size as the output size) and _dirty is set.
frame_tick(t) ==
    /\ in_size' = t
    /\ out_size' = IF provider_ready /\ nvidia_fx # NoFx THEN size(t) ELSE t
    /\ dirty' = TRUE
    /\ UNCHANGED <<tickVars, factoryVars, provider, provider_ready, provider_lock,
                   provider_task, mask, masked, fxVars, poolVars, gfx, ui, destroyed,
                   crashed, dangling, histVars, bufVars>>

\* video_render, lines 226-377, with no other thread and a ready NVIDIA
\* provider: the capture has the size of the target, nvidia_process hands it to
\* the adapter's process, which resizes, loads if dirty and runs (run_ok); an
\* exception skips the frame (line 308) and leaves _dirty set.
frame_render(f, load_ok, run_ok) ==
    LET st0 == [a |-> adapter, ops |-> NoRoleOps, rebind |-> 0, thrown |-> FALSE]
        st == ResizeOutput(ResizeInput(st0, in_size, f), in_size, f)
        load_throws == ~st.thrown /\ st.a.dirty /\ ~load_ok
        reached == ~st.thrown /\ ~load_throws
        done == reached /\ run_ok
    IN  /\ provider_ready /\ dirty /\ adapter.exists
        /\ adapter' = IF ~st.thrown /\ st.a.dirty /\ load_ok
                      THEN [st.a EXCEPT !.dirty = FALSE, !.rebound = FALSE] ELSE st.a
        /\ call' = [n |-> 1 - call.n,
                    kind |-> IF reached THEN "process" ELSE "process_failed",
                    size |-> in_size, ops |-> st.ops, rebind |-> st.rebind,
                    thrown |-> ~done,
                    refused |-> IF st.thrown THEN f
                                ELSE IF load_throws THEN "load"
                                ELSE IF ~run_ok THEN "run" ELSE "none",
                    steps |-> IF ~reached THEN <<>>
                              ELSE IF run_ok THEN ProcessSteps
                              ELSE SubSeq(ProcessSteps, 1, 2),
                    gpu |-> ResizeGpu(st.ops)]
        /\ mask' = IF done THEN "output" ELSE mask
        /\ masked' = IF done THEN [by |-> "output", size |-> in_size] ELSE masked
        /\ dirty' = ~done
        /\ UNCHANGED <<tickVars, factoryVars, provider, provider_ready, provider_lock,
                       provider_task, in_size, out_size, fxVars, poolVars, gfx, ui,
                       destroyed, crashed, dangling, histVars, nv_rt>>

NextFrame ==
    \/ frame_switch
    \/ \E t \in ResizeSizes : frame_tick(t)
    \/ \E f \in FrameFailures, load_ok \in BOOLEAN, run_ok \in BOOLEAN :
          frame_render(f, load_ok, run_ok)

SpecFrame == InitFrame /\ [][NextFrame]_vars

\* Frame sizes, in pixels, below, inside and above the accelerator's limits.
SizeInputs == {<<4000, 30>>, <<30, 4000>>, <<1280, 720>>, <<1920, 1080>>,
               <<3840, 2160>>, <<160, 90>>, <<100, 100>>, <<64, 48>>,
               <<2000, 2000>>, <<720, 1280>>}

\* std::clamp<uint32_t>
clamp(v, lo, hi) == IF v < lo THEN lo ELSE IF hi < v THEN hi ELSE v

\* round(static_cast<double>(r) * (static_cast<double>(a) / static_cast<double>(b)))
\* for positive operands, in exact arithmetic: halves round away from zero.
round_scaled(r, a, b) == (2 * r * a + b) \div (2 * b)

\* filter-nv-background-removal: _enforce_size_nvidia_background_removal
enforce_size_nvidia_background_removal(x, y) ==
    IF x > y
    THEN LET rx == clamp(x, 142, 1920) IN <<rx, round_scaled(rx, y, x)>>
    ELSE LET ry == clamp(y, 80, 1080) IN <<round_scaled(ry, x, y), ry>>

\* filter-nv-background-removal video_render, lines 169-178: a frame with a
\* target and a non-empty size sets _size from the enforced size.
nv_enforce_size(s) ==
    /\ nv_rt.exists
    /\ nv_rt' = [nv_rt EXCEPT !.size = enforce_size_nvidia_background_removal(s[1], s[2])]
    /\ call' = [NoCall EXCEPT !.n = 1 - call.n, !.kind = "enforce", !.size = s]
    /\ UNCHANGED <<adapter, instanceVars>>

NextSize ==
    \/ frame_switch
    \/ \E t \in SizeInputs : frame_tick(t)
    \/ \E s \in SizeInputs : nv_enforce_size(s)

\* Both filters, each about to be sized for a frame.
InitSize ==
    /\ InitInstance /\ rapid = "off" /\ tick_phase = "off" /\ tick_target = UntrackedTarget
    /\ adapter = NoAdapter /\ nv_rt = InitRt /\ call = NoCall

SpecSize == InitSize /\ [][NextSize]_vars

\* ================================================================ claims
RequestDone == ui.pc = "idle"

\* C1 (as stated): once every request has returned and no task is queued or
\* running, the active identity is the last requested one and the provider is
\* ready, provided the last load did not fail.
C1_Original ==
    (Alive /\ RequestDone /\ Settled /\ last_requested # "NONE" /\ ~load_failed)
        => (provider = last_requested /\ provider_ready)

\* C1 (amended): the same, for sequences in which at least one request differed
\* from the active identity, so that a switch task was pushed.
C1_Amended ==
    (Alive /\ RequestDone /\ Settled /\ provider_task # NoTask /\ ~load_failed)
        => (provider = last_requested /\ provider_ready)

C1_Witness ==
    /\ Alive /\ RequestDone /\ Settled /\ ~load_failed
    /\ provider_task # NoTask
    /\ provider = NVIDIA_GREEN_SCREEN /\ last_requested = NVIDIA_GREEN_SCREEN
    /\ provider_ready /\ nvidia_fx = "fx_b"

\* C2: a process call is serviced by a completely loaded adapter: the instance
\* the render entered is live and holds all its buffers for the whole call,
\* whatever switch is in flight.
C2_ProcessOnLoadedAdapter ==
    gfx.pc = "r_in_process"
        => (fx_state[gfx.fx] = "live" /\ fx_bufs[gfx.fx] = BuffersPerAdapter)

C2_Witness ==
    /\ gfx.pc = "r_in_process"
    /\ Count(task_wait) > 0
    /\ fx_state[gfx.fx] = "live"

TaskInAdapter == task_body.pc \in {"unload", "unloading", "load", "loading", "replacing"}
GfxInAdapter == gfx.pc \in {"tick_size", "r_capture", "r_in_process", "r_composite"}
UiInAdapter == ui.pc \in {"d_unload", "d_unloading"}

RenderWorking == {"r_lock", "r_capture", "r_in_process", "r_composite"}

\* C4 (as stated): provider_ready is true at the moment process is invoked.
C4_Original == gfx.pc = "r_in_process" => gfx.invoked_ready

\* C4 (amended): process is invoked only in a render that found provider_ready
\* true when it tested it on entry, and a render that finds it false does no
\* work at all; the flag may have been cleared by the time process is invoked.
C4_Amended ==
    [][/\ gfx'.pc = "r_in_process" => gfx'.entry_ready
       /\ (gfx.pc = "idle" /\ ~provider_ready) => gfx'.pc \notin RenderWorking]_vars

C4_Witness == gfx.pc = "r_in_process" /\ gfx.entry_ready /\ ~provider_ready

SwitchReturns == ui.pc = "u_switch" /\ ui'.pc = "u_switched"
OneTaskCapturingOld ==
    /\ Len(pool_tasks') = 1
    /\ pool_tasks'[1].spd = provider
    /\ pool_tasks'[1].id = provider_task'
    /\ provider_task' # provider_task

\* C5 (as stated): when switch_provider returns, the active identity is the new
\* one, provider_ready is false and one task capturing the old identity is queued.
C5_Original ==
    [][SwitchReturns =>
        (provider' = ui.arg /\ ~provider_ready' /\ OneTaskCapturingOld)]_vars

\* C5 (amended): when switch_provider returns, the active identity is the new
\* one and one task capturing the old identity is queued; provider_ready is
\* left as it was (the task clears it when it starts).
C5_Amended ==
    [][SwitchReturns =>
        (provider' = ui.arg /\ provider_ready' = provider_ready
         /\ OneTaskCapturingOld)]_vars

C5_Witness ==
    /\ ui.pc = "u_switched" /\ provider = ui.arg /\ provider # ui.old
    /\ provider_ready
    /\ Len(pool_tasks) = 1

\* C6 (as stated): a request for the identity that is active and ready never
\* takes the lock.
C6_Original == ui.noop => ui.pc \notin {"u_lock", "u_locked"}

\* C6 (amended): a request for the identity that is active and ready changes
\* nothing (active identity, ready flag, task handle, queue, tasks, adapter,
\* buffers), but update takes the lock once and has released it on return.
C6_Amended ==
    [][(ui' # ui /\ (ui.noop \/ ui'.noop)) =>
        /\ UNCHANGED <<provider, provider_ready, provider_task, pool_tasks,
                       task_start, task_wait, task_body, nvidia_fx, fx_state, fx_bufs>>
        /\ ui'.pc = "idle" => provider_lock' # Ui]_vars

C6_Witness == ui.noop /\ ui.pc = "u_locked" /\ provider_lock = Ui /\ provider_ready

\* C7 (as stated): after a load failed in a switch task, provider_ready is false
\* until a switch task has succeeded.
C7_Claim == load_failed => ~provider_ready

\* C8 (as stated): a failing unload of the old adapter does not end the switch
\* task; the task goes on to load.
C8_Claim == task_body.pc # "unload_failed"

TotalBuffers == fx_bufs["fx_a"] + fx_bufs["fx_b"]

\* C9: after four rapid requests away from and back to NVIDIA_GREEN_SCREEN have
\* settled, exactly one adapter exists, it is the one _nvidia_fx points to, and
\* the buffers in existence are those of one adapter.
C9_NoLeakAfterRapidSwitches ==
    (rapid = "r4" /\ Settled /\ Alive) =>
        /\ nvidia_fx # NoFx
        /\ fx_state[nvidia_fx] = "live"
        /\ \A i \in FxIds \ {nvidia_fx} : fx_state[i] = "free"
        /\ TotalBuffers = BuffersPerAdapter

C9_Witness ==
    /\ rapid = "r4" /\ Settled /\ Alive /\ RequestDone
    /\ provider = NVIDIA_GREEN_SCREEN /\ provider_ready /\ ~load_failed

\* The size of the buffer bound for a role of the adapter; NoSize if none is
\* mapped.
BoundSize(a, r) ==
    CASE r = "input" -> IF a.input.mapped THEN a.input.buf ELSE NoSize
      [] r = "output" -> IF a.output.mapped THEN a.output.buf ELSE NoSize
      [] r = "source" -> a.source
      [] r = "destination" -> a.destination
OneCycle == [unmap |-> 1, dealloc |-> 1, alloc |-> 1, map |-> 1]
ResizeReturned == call'.n # call.n /\ call'.kind = "resize" /\ ~call'.thrown

\* C10 (as stated): a resize call that returns has performed exactly one
\* reallocation cycle (unmap, dealloc, alloc, map) for each texture role whose
\* bound size differed from the requested one, and for a role whose bound size
\* was the requested one no call at all; if no role differed, nothing is
\* rebound and the adapter is not marked dirty.
C10_Claim ==
    [][ResizeReturned =>
        /\ \A r \in TextureRoles :
            call'.ops[r] = IF BoundSize(adapter, r) # call'.size THEN OneCycle ELSE NoOps
        /\ (\A r \in Roles : BoundSize(adapter, r) = call'.size)
            => (call'.rebind = 0 /\ adapter'.dirty = adapter.dirty)]_vars

\* The mapped buffers: the textures of the adapter and the render target's image.
MappedWithoutBuffer ==
    \/ adapter.input.mapped /\ adapter.input.buf = NoSize
    \/ adapter.output.mapped /\ adapter.output.buf = NoSize
    \/ nv_rt.mapped /\ nv_rt.nvimg = NoSize
HadBuffer(r) ==
    CASE call'.kind = "resize" /\ r = "input" -> adapter.input.buf # NoSize
      [] call'.kind = "resize" /\ r = "output" -> adapter.output.buf # NoSize
      [] call'.kind = "ensure" /\ r = "input" -> nv_rt.nvimg # NoSize
      [] OTHER -> FALSE

\* C11 (as stated): in every call (resize, ensure, destruction) a mapped buffer
\* is deallocated only after it has been unmapped, so no buffer is ever gone while
\* its mapping remains; and a call that allocates the replacement of an existing
\* buffer has unmapped and deallocated that buffer first.
C11_Claim ==
    [][call'.n # call.n =>
        /\ \A r \in TextureRoles :
            /\ call'.ops[r].dealloc = 1 => call'.ops[r].unmap = 1
            /\ (call'.ops[r].alloc = 1 /\ HadBuffer(r))
                => (call'.ops[r].unmap = 1 /\ call'.ops[r].dealloc = 1)
        /\ ~MappedWithoutBuffer']_vars

\* C12 (as stated): after a failed allocation or mapping the role has no buffer
\* and frames skip processing, so whenever a frame is handed to the accelerator
\* the mapped input and output buffers exist at the frame's size.
C12_Claim ==
    [][(call'.n # call.n /\ call'.kind = "process") =>
        \A r \in TextureRoles : BoundSize(adapter', r) = call'.size]_vars

\* C13 (as stated): whenever provider_ready is true and an adapter is loaded, each
\* role of the adapter has a buffer and its dimensions are the pipeline's
\* current size.
C13_Claim ==
    (provider_ready /\ adapter.exists)
        => \A r \in Roles : BoundSize(adapter, r) = in_size

ProcessRaised == gfx.pc = "r_in_process" /\ gfx'.pc = "idle"

\* C15: when the adapter's process raises during a render, the render returns
\* normally with the lock released and the frame skipped; provider_ready, the
\* active identity, the adapter, the task queue and handle, the cache and the
\* dirty flag are as before, and the process goes on.
C15_ProcessErrorSkipsFrame ==
    [][ProcessRaised =>
        /\ UNCHANGED <<provider_ready, provider, provider_task, pool_tasks, nvidia_fx,
                       fx_state, fx_bufs, masked, dirty>>
        /\ provider_lock' = Free
        /\ ~crashed']_vars

C15_Witness ==
    /\ Alive /\ gfx.pc = "r_in_process" /\ provider_ready /\ dirty
    /\ fx_state[gfx.fx] = "live" /\ provider_lock = Gfx

\* C16 (as stated): a switch requested during a frame's tick never becomes
\* ready before that frame's render has completed.
C16_Original ==
    [][~(tick_phase = "requested" /\ ~provider_ready /\ provider_ready')]_vars

\* C16 (amended): a switch becomes ready only inside the task's locked section,
\* never while a tick or a render is inside its own locked section; a switch
\* requested while the render holds the lock is therefore not ready before
\* that render completes.
C16_Amended ==
    [][(~provider_ready /\ provider_ready') =>
        /\ provider_lock = Task
        /\ gfx.pc \notin {"tick_size", "r_capture", "r_in_process", "r_composite"}]_vars

C16_Witness ==
    /\ tick_phase = "requested"
    /\ gfx.pc = "r_composite"
    /\ Count(task_wait) = 1
    /\ ~provider_ready

\* A switch request that passed the equality test has enqueued its task.
SwitchEnqueues == provider_task' # provider_task

\* A worker has started a task.
WorkerStarts == Count(task_start') = Count(task_start) + 1

C18_FactoryRegistration ==
    /\ ~factory.escaped
    /\ factory.constructed =>
        IF factory.nvcuda /\ factory.nvcvi /\ factory.nvvfx
        THEN factory.registered
        ELSE /\ ~factory.registered
             /\ factory.warned /\ factory.errored
             /\ \A p \in Providers : ~is_provider_available(p)

C18_Witness ==
    /\ factory.constructed
    /\ ~factory.nvvfx
    /\ factory.errored

\* Positions of the priority list whose provider is available at runtime.
AvailablePositions ==
    {i \in 1..Len(provider_priority) : is_provider_available(provider_priority[i])}

\* C19: an update that selects automatic passes to the switch the first
\* provider of the priority list that is available, and the active identity is
\* always a concrete provider or none, never the automatic meta-value.
C19_AutomaticResolved ==
    /\ provider \in {INVALID, NVIDIA_GREEN_SCREEN}
    /\ (ui.pc # "idle" /\ ui.req = AUTOMATIC) =>
        /\ AvailablePositions # {}
        /\ \E i \in AvailablePositions :
            /\ ui.arg = provider_priority[i]
            /\ \A j \in AvailablePositions : i <= j

C19_Witness ==
    /\ ui.pc = "u_switched"
    /\ ui.req = AUTOMATIC
    /\ provider = NVIDIA_GREEN_SCREEN

\* The output size the short-side rule asks for: the short side clamped into
\* [80, 1080], the long side scaled by the same ratio and rounded.
ShortSideClamped(s) ==
    IF s[1] <= s[2]
    THEN LET w == clamp(s[1], 80, 1080) IN <<w, round_scaled(w, s[2], s[1])>>
    ELSE LET h == clamp(s[2], 80, 1080) IN <<round_scaled(h, s[1], s[2]), h>>

\* C20 (as stated): for every input size the reported output size has its short
\* side clamped into [80, 1080] and its long side scaled to keep the aspect
\* ratio, rounded to the nearest integer.
C20_Claim ==
    /\ (provider_ready /\ nvidia_fx # NoFx /\ dirty) => out_size = ShortSideClamped(in_size)
    /\ call.kind = "enforce" => nv_rt.size = ShortSideClamped(call.size)

\* C21 (as stated): no failure of an accelerator call ends the process: an
\* error raised during render, tick, a switch task, an unload or a destruction
\* is caught inside the instance and never leaves a thread or a destructor.
C21_Claim == crashed = FALSE

\* What each location of the stated order holds for the library constructed.
StatedOrder(l) ==
    <<[from |-> "vfx_env", at |-> IF l.win32 THEN l.vfx_env ELSE "unset"],
      [from |-> "vfx_dir", at |-> IF l.win32 THEN l.vfx_dir ELSE "absent"],
      [from |-> "search", at |-> l.search]>>

\* The first location of the stated order that holds a loadable library.
RECURSIVE FirstGood(_)
FirstGood(order) ==
    IF order = <<>> THEN "none"
    ELSE IF Head(order).at = "good" THEN Head(order).from
    ELSE FirstGood(Tail(order))

\* C22 (as stated): the library is located by trying the SDK environment
\* variable, then the default install directory, then the library search path;
\* a later location is tried only if every earlier one failed, and the
\* construction fails only if all fail.
C22_Claim ==
    loader.state \in {"loaded", "failed"} =>
        /\ loader.loaded = FirstGood(StatedOrder(loader))
        /\ (loader.state = "failed") = (FirstGood(StatedOrder(loader)) = "none")
        /\ \A i \in 1..Len(loader.tried) :
            loader.tried[i] = loader.loaded => i = Len(loader.tried)

\* C23 (as stated): at most one runtime instance is alive at a time, every
\* caller that was handed a handle by get() holds that one instance, and the
\* instance is alive exactly while somebody holds it.
C23_Claim ==
    /\ Cardinality({i \in 1..Len(runtime.objs) : runtime.objs[i] = "alive"}) <= 1
    /\ \A c \in Callers :
        runtime.th[c].pc = "holding" =>
            /\ runtime.th[c].h # 0
            /\ runtime.objs[runtime.th[c].h] = "alive"
            /\ runtime.th[c].h = runtime.weak
    /\ \A i \in 1..Len(runtime.objs) : (runtime.objs[i] = "alive") = (UseCount(i) > 0)

\* C24 (as stated): the render thread and a switch task never deadlock: the
\* render never waits for the switch lock, with the graphics context held,
\* while the task that holds the switch lock waits for the graphics context.
C24_Claim ==
    ~(/\ gfx.pc = "r_lock"
      /\ provider_lock = Task
      /\ TaskWantsGraphics)

\* A switch task sets provider_ready to true and returns.
TaskCommits ==
    /\ task_body.pc \in {"load", "loading", "replacing"}
    /\ task_body' = NoBody
    /\ ~load_failed'
    /\ ~crashed'

\* C25: whenever a switch task sets provider_ready to true, what it has just
\* loaded belongs to the identity that is active at that moment: a fresh, live
\* adapter when that identity is NVIDIA_GREEN_SCREEN, nothing otherwise.
C25_CommitsForActiveIdentity ==
    [][TaskCommits =>
        /\ provider_ready'
        /\ provider' = provider
        /\ IF provider = NVIDIA_GREEN_SCREEN
           THEN /\ task_body.pc \in {"loading", "replacing"}
                /\ nvidia_fx' # NoFx
                /\ fx_state'[nvidia_fx'] = "live"
                /\ fx_state[nvidia_fx'] = "constructing" \/ task_body.pc = "replacing"
           ELSE task_body.pc = "load"]_vars

C25_Witness ==
    /\ provider_ready
    /\ provider = NVIDIA_GREEN_SCREEN
    /\ task_body = NoBody
    /\ Count(task_wait) = 1
    /\ nvidia_fx # NoFx
    /\ Alive

\* C26: the cached composited frame is written only by a render call that
\* found the dirty flag set and holds the switch lock; ticks, switch requests,
\* switch tasks and renders with the flag clear leave it unchanged.
C26_CacheWrittenUnderLock ==
    [][/\ masked' # masked => (gfx.pc = "r_composite" /\ provider_lock = Gfx /\ dirty)
       /\ gfx'.pc = "r_composite" => (provider_lock' = Gfx /\ dirty')
       /\ (gfx.pc = "idle" /\ ~dirty) => gfx'.pc \notin RenderWorking]_vars

C26_Witness ==
    /\ gfx.pc = "r_composite"
    /\ provider_lock = Gfx
    /\ dirty
    /\ masked.by = "output"
    /\ mask = "input"

\* A dirty render returns before the composite: the capture failed, process
\* raised, or process returned no result.
RenderGivesUp == gfx.pc \in {"r_capture", "r_in_process"} /\ gfx'.pc = "idle"

\* C27: when the capture fails, process raises or process returns no result,
\* the frame is skipped with the cached frame unchanged and the dirty flag
\* still set, so that the next render tries again; the flag is cleared only by
\* a successful composite.
C27_SkipKeepsDirty ==
    [][/\ RenderGivesUp => (masked' = masked /\ dirty /\ dirty')
       /\ (gfx.pc = "r_capture" /\ gfx' # gfx /\ provider # NVIDIA_GREEN_SCREEN)
            => RenderGivesUp
       /\ gfx'.pc = "r_composite" => mask' # "none"
       /\ (dirty /\ ~dirty') =>
            /\ gfx.pc = "r_composite" /\ gfx'.pc = "idle"
            /\ mask # "none"
            /\ masked' = [by |-> mask, size |-> gfx.size]]_vars

C27_Witness ==
    /\ gfx.pc = "idle"
    /\ dirty
    /\ mask = "none"
    /\ provider_ready
    /\ Alive

\* video_tick is entered, and video_tick returns (at once, or after nvidia_size).
TickEntered == gfx.pc = "idle" /\ tick_target'.n # tick_target.n
TickReturned ==
    \/ TickEntered /\ gfx'.pc = "idle"
    \/ gfx.pc = "tick_size" /\ gfx'.pc = "idle"

\* C28: after every tick the dirty flag is set and input_size is the size of
\* the host's target, ready or not; output_size is the size the active adapter
\* reports when the provider is ready and a target exists, and input_size
\* otherwise.
C28_TickSizes ==
    [][/\ TickEntered =>
            /\ in_size' = tick_target'.size
            /\ (gfx'.pc = "idle") \/ (gfx'.pc = "tick_lock")
            /\ (gfx'.pc = "tick_lock") <=> (tick_target'.exists /\ provider_ready)
       /\ TickReturned =>
            /\ dirty'
            /\ in_size' = tick_target'.size
            /\ out_size' = IF gfx.pc = "tick_size" /\ provider = NVIDIA_GREEN_SCREEN
                               /\ nvidia_fx # NoFx
                            THEN size(in_size')
                            ELSE in_size']_vars

C28_Witness ==
    /\ gfx.pc = "idle"
    /\ tick_target.n = 1 /\ tick_target.exists /\ tick_target.size = <<1, 1>>
    /\ provider_ready /\ provider = NVIDIA_GREEN_SCREEN /\ nvidia_fx # NoFx
    /\ dirty /\ in_size = <<1, 1>> /\ out_size = <<1, 1>>

\* A process call reaches the accelerator calls of lines 139-175, NvVFX_Run
\* among them.
RunReached == call'.n # call.n /\ call'.kind = "process"

\* C29 (as stated): Run is never invoked while the adapter is dirty: after any
\* rebinding of the input or output image a successful load precedes the next
\* Run, and a process call with unchanged buffers and a clean adapter does not
\* load.
C29_Claim ==
    [][RunReached => (~adapter'.dirty /\ ~adapter'.rebound)]_vars

\* The accelerator calls an adapter makes when it is built and when it
\* processes a frame.
AdapterCalls ==
    {"create", "set_in", "set_mode", "set_out", "load", "run", "transfer_in",
     "transfer_working", "transfer_out"}

\* C30 (as stated): every accelerator call of an adapter that returns a
\* non-success status raises an error that ends the enclosing operation: no
\* later step of it runs and process returns no texture.
C30_Claim ==
    [][(call'.n # call.n /\ call'.refused \in AdapterCalls) => call'.thrown]_vars

\* A process call has returned a texture.
ProcessReturned ==
    call'.n # call.n /\ call'.kind \in {"process", "nv_process"} /\ ~call'.thrown

\* C31 (as stated): in every process call the compute stream is synchronized
\* once before the first transfer and once after the last, in the order sync,
\* transfer-in, run, transfer-out, sync, and the texture is returned after the
\* last synchronization.
C31_Claim ==
    [][ProcessReturned =>
        LET st == call'.steps
            runs == {i \in DOMAIN st : st[i] = "run"}
            syncs == {i \in DOMAIN st : st[i] = "sync"}
        IN  /\ syncs = {1, Len(st)} /\ Len(st) >= 2
            /\ st[2] = "transfer_in" /\ st[Len(st) - 1] = "transfer_out"
            /\ Cardinality(runs) = 1]_vars

\* C32 (as stated): every creation, resize and destruction of a GPU object
\* happens while the calling thread holds both the graphics context and the
\* compute context.
C32_Claim ==
    [][call'.n # call.n =>
        \A i \in DOMAIN call'.gpu : call'.gpu[i].gctx /\ call'.gpu[i].cctx]_vars

\* video_render has composited the cache and draws it (lines 364-376).
Presents == gfx.pc = "r_composite" /\ gfx'.pc = "idle" /\ ~dirty'

\* C33 (as stated): at every present the cached output texture has the
\* dimensions of the output_size the quad is drawn with, also when the target's
\* dimensions change between a tick and the render after it.
C33_Claim ==
    [][Presents => masked'.size = out_size']_vars

\* C34 (as stated): once the instance is destroyed no switch task of it is
\* queued or running and none touches its state, and when the destructor has
\* returned the adapter is unloaded.
C34_Claim ==
    /\ destroyed => (Settled /\ ~dangling)
    /\ ui.pc = "gone" => (nvidia_fx = NoFx \/ TotalBuffers = 0)

\* Adapters that exist, loaded or being built or destroyed.
LoadedAdapters == {i \in FxIds : fx_state[i] # "free"}

\* C35: once the switch requests have settled (every request returned, no task
\* queued or running) no adapter but the active provider's is loaded: an
\* adapter of a provider that is no longer active has been unloaded, also when
\* the task that captured it as the old one was cancelled before it started.
C35_OnlyActiveLoaded ==
    (Alive /\ RequestDone /\ Settled) =>
        /\ LoadedAdapters \subseteq {nvidia_fx}
        /\ provider # NVIDIA_GREEN_SCREEN =>
              (nvidia_fx = NoFx /\ LoadedAdapters = {} /\ TotalBuffers = 0)

C35_Witness ==
    /\ rapid = "r3_taken"
    /\ Alive /\ RequestDone /\ Settled
    /\ provider = INVALID
    /\ nvidia_fx = NoFx /\ TotalBuffers = 0
    /\ provider_ready /\ ~load_failed

\* C36 (as stated): whenever provider_ready is true the adapter loaded is that
\* of the active identity, and none is loaded when the active identity has
\* none; also between a switch request and the start of its task.
C36_Claim ==
    (Alive /\ provider_ready) =>
        IF provider = NVIDIA_GREEN_SCREEN
        THEN nvidia_fx # NoFx
        ELSE nvidia_fx = NoFx

\* update has read a setting that selects the active identity again, after the
\* load of that identity failed and with no task left.
ReselectsFailed ==
    /\ ui.pc = "idle" /\ ui'.pc # "idle"
    /\ load_failed /\ ~provider_ready /\ Settled
    /\ ui'.arg = provider

\* C37 (as stated): after the load of provider P failed in a switch task, an
\* update that selects P again enqueues a switch task that retries the load.
C37_Claim ==
    [][ReselectsFailed => ui'.pc = "u_switch"]_vars

\* The kind of a member the adapter's destructor releases: the effect handle,
\* a buffer, or a reference to a runtime.
Rank(m) == IF m = "fx" THEN 0
           ELSE IF m \in {"nvvfx", "nvcvi", "nvcuda"} THEN 2 ELSE 1

\* C38: unloading an adapter destroys the effect handle first, then releases
\* every buffer (input, source, destination, output, temporary), and drops the
\* references to the CUDA, CVImage and Video Effects runtimes only after all
\* buffers are released.
C38_ReleaseOrder ==
    [][(call'.n # call.n /\ call'.kind = "destruct") =>
        LET st == call'.steps IN
        /\ \A i, j \in DOMAIN st : i < j => Rank(st[i]) <= Rank(st[j])
        /\ \A i, j \in DOMAIN st : i # j => st[i] # st[j]
        /\ ~call'.thrown =>
              /\ {st[i] : i \in DOMAIN st} =
                    {"fx", "input", "source", "destination", "output", "tmp",
                     "nvvfx", "nvcvi", "nvcuda"}
              /\ ~adapter'.exists]_vars

C38_Witness ==
    /\ call.kind = "destruct" /\ ~call.thrown /\ ~adapter.exists
    /\ Len(call.steps) = 9 /\ call.steps[1] = "fx" /\ call.steps[9] = "nvcuda"

\* The texture of a role as it was when the call began.
TextureBefore(r) ==
    IF call'.kind \in {"ensure", "destroy"}
    THEN [mapped |-> nv_rt.mapped, buf |-> nv_rt.nvimg]
    ELSE IF r = "input" THEN [mapped |-> adapter.input.mapped, buf |-> adapter.input.buf]
    ELSE [mapped |-> adapter.output.mapped, buf |-> adapter.output.buf]

\* C39 (as stated): for every mapped buffer map and unmap alternate over its
\* whole life, also after a failed call: a buffer is unmapped only while
\* mapped, deallocated only while allocated, and mapped only while unmapped.
C39_Claim ==
    [][(call'.n # call.n /\ call'.kind \in {"resize", "destruct", "ensure", "destroy"}) =>
        \A r \in TextureRoles :
            /\ call'.ops[r].unmap = 1 => TextureBefore(r).mapped
            /\ call'.ops[r].dealloc = 1 => TextureBefore(r).buf # NoSize
            /\ call'.ops[r].map = 1
                  => (TextureBefore(r).mapped => call'.ops[r].unmap = 1)]_vars

====
